---- MODULE Spec2Model ----
(***************************************************************************)
(* Model of the SQLite tool layer of sql_matic2:                           *)
(*   backend/tools/sqlite_execute_query.py  (splitter, write classifier,   *)
(*                                           query executor)               *)
(*   backend/tools/get_sqlite_schema.py     (schema extraction)            *)
(*   backend/tools/sqlite_get_metadata.py   (metadata extraction)          *)
(*                                                                         *)
(* SQL text is a sequence of symbols.  The symbols with a lexical meaning  *)
(* for the code (quote characters, semicolon, the comment characters,      *)
(* whitespace) are themselves; a run of ordinary characters that forms a   *)
(* word is one symbol ("SELECT", "insert", "a", ...).                      *)
(***************************************************************************)
EXTENDS Integers, Sequences, FiniteSets, TLC

\* ------------------------------------------------------------------ bounds
MaxLen == 4            \* longest text handed to the splitter specification
MaxStmts == 2          \* most statements in one submitted batch
MaxTableRows == 2      \* most rows in table t before the call
MaxLimit == 1          \* largest max_rows argument tried
MaxTableCount == 1     \* largest table_count argument tried

\* --------------------------------------------------------- text primitives
SQ == "'"
DQ == "\""
NL == "\n"

\* str.strip() removes these
Whitespace == {" ", NL}

\* str.upper() on a word symbol
Upper(c) ==
  CASE c = "insert" -> "INSERT"
    [] c = "select" -> "SELECT"
    [] OTHER -> c

Min(a, b) == IF a < b THEN a ELSE b

\* s[a..b], empty when a > b
Slice(s, a, b) == IF a > b THEN << >> ELSE SubSeq(s, a, b)

RECURSIVE LStrip(_)
LStrip(s) ==
  IF s = << >> THEN s
  ELSE IF Head(s) \in Whitespace THEN LStrip(Tail(s)) ELSE s

RECURSIVE RStrip(_)
RStrip(s) ==
  IF s = << >> THEN s
  ELSE IF s[Len(s)] \in Whitespace THEN RStrip(SubSeq(s, 1, Len(s) - 1)) ELSE s

\* str.strip()
Strip(s) == RStrip(LStrip(s))

\* ------------------------------------------------- parse_multiple_queries
\* index of the first "\n" at or after position p, Len(s)+1 when there is none
RECURSIVE LineEnd(_, _)
LineEnd(s, p) ==
  IF p > Len(s) THEN Len(s) + 1
  ELSE IF s[p] = NL THEN p ELSE LineEnd(s, p + 1)

\* position where the inner while loop of the block-comment branch stops,
\* started at position p (the position of the opening star)
RECURSIVE BlockEnd(_, _)
BlockEnd(s, p) ==
  IF ~(p + 1 <= Len(s)) THEN p
  ELSE IF s[p] = "*" /\ s[p + 1] = "/" THEN p ELSE BlockEnd(s, p + 1)

ScanInit ==
  [i |-> 1, queries |-> << >>, current_query |-> << >>,
   in_single_quote |-> FALSE, in_double_quote |-> FALSE]

\* a quote character toggles its own flag when the other flag is not set
ToggleSingle(char, sq, dq) == IF char = SQ /\ ~dq THEN ~sq ELSE sq

ToggleDouble(char, sq, dq) ==
  IF char = SQ /\ ~dq THEN dq
  ELSE IF char = DQ /\ ~sq THEN ~dq ELSE dq

\* a split at every semicolon, quoted or not
SplitsAtAnySemicolon(char, sq, dq) == char = ";"

\* does a semicolon read with these quote flags end the statement
SplitsHere(char, sq, dq) == char = ";" /\ ~sq /\ ~dq

\* one iteration of the while loop (positions are 1-based here)
ScanStep(s, st) ==
  LET n == Len(s)
      p == st.i
      char == s[p]
      sq == ToggleSingle(char, st.in_single_quote, st.in_double_quote)
      dq == ToggleDouble(char, st.in_single_quote, st.in_double_quote)
      cq == st.current_query
  IN
  IF char = "-" /\ p + 1 <= n /\ s[p + 1] = "-" /\ ~sq /\ ~dq THEN
    LET e == LineEnd(s, p + 1) IN
    [st EXCEPT !.i = e + 1,
               !.current_query = cq \o Slice(s, p, Min(e, n)),
               !.in_single_quote = sq, !.in_double_quote = dq]
  ELSE IF char = "/" /\ p + 1 <= n /\ s[p + 1] = "*" /\ ~sq /\ ~dq THEN
    LET e == BlockEnd(s, p + 1) IN
    IF e + 1 <= n
    THEN [st EXCEPT !.i = e + 2,
                    !.current_query = cq \o Slice(s, p, e - 1) \o <<"*", "/">>,
                    !.in_single_quote = sq, !.in_double_quote = dq]
    ELSE [st EXCEPT !.i = e + 1,
                    !.current_query = cq \o Slice(s, p, e - 1),
                    !.in_single_quote = sq, !.in_double_quote = dq]
  ELSE IF SplitsHere(char, sq, dq) THEN
    LET trimmed_query == Strip(cq \o <<char>>) IN
    [st EXCEPT !.i = p + 1,
               !.queries = IF trimmed_query # << >>
                           THEN Append(st.queries, trimmed_query)
                           ELSE st.queries,
               !.current_query = << >>,
               !.in_single_quote = sq, !.in_double_quote = dq]
  ELSE
    [st EXCEPT !.i = p + 1,
               !.current_query = cq \o <<char>>,
               !.in_single_quote = sq, !.in_double_quote = dq]

\* the code after the loop: add the last query if it is not empty
ScanFinish(st) ==
  LET trimmed_query == Strip(st.current_query) IN
  IF trimmed_query # << >> THEN Append(st.queries, trimmed_query) ELSE st.queries

RECURSIVE ScanLoop(_, _)
ScanLoop(s, st) == IF st.i <= Len(s) THEN ScanLoop(s, ScanStep(s, st)) ELSE st

parse_multiple_queries(query_str) == ScanFinish(ScanLoop(query_str, ScanInit))

\* ----------------------------------------------------- is_write_operation
\* re.sub(r'--.*?(\n|$)', ' ', query): every line comment becomes one blank
RECURSIVE RemoveLineComments(_)
RemoveLineComments(s) ==
  IF s = << >> THEN s
  ELSE IF Len(s) >= 2 /\ s[1] = "-" /\ s[2] = "-"
       THEN LET e == LineEnd(s, 3) IN
            <<" ">> \o RemoveLineComments(Slice(s, e + 1, Len(s)))
       ELSE <<Head(s)>> \o RemoveLineComments(Tail(s))

\* position of the star of the first "*/" at or after p, 0 when there is none
RECURSIVE CloseAt(_, _)
CloseAt(s, p) ==
  IF p + 1 > Len(s) THEN 0
  ELSE IF s[p] = "*" /\ s[p + 1] = "/" THEN p ELSE CloseAt(s, p + 1)

\* re.sub(r'/\*.*?\*/', ' ', query, flags=re.DOTALL)
RECURSIVE RemoveBlockComments(_)
RemoveBlockComments(s) ==
  IF s = << >> THEN s
  ELSE IF Len(s) >= 2 /\ s[1] = "/" /\ s[2] = "*" /\ CloseAt(s, 3) # 0
       THEN <<" ">> \o RemoveBlockComments(Slice(s, CloseAt(s, 3) + 2, Len(s)))
       ELSE <<Head(s)>> \o RemoveBlockComments(Tail(s))

write_operations ==
  {"INSERT", "UPDATE", "DELETE", "DROP", "CREATE", "ALTER", "TRUNCATE", "REPLACE"}

\* clean_query.startswith(op) for some op: the text begins with a write keyword
StartsWithWrite(clean_query) ==
  clean_query # << >> /\ Upper(Head(clean_query)) \in write_operations

is_write_operation(q) ==
  StartsWithWrite(Strip(RemoveBlockComments(RemoveLineComments(q))))

\* ------------------------------------------------------------------ state
VARIABLES
  \* splitter run: the input text, the loop's locals, the returned list
  query_str, scan, parsed, ppc,
  \* the call: which tool, and its inputs
  op, db_exists, query, enable_write, max_rows,
  \* SqliteGetMetadataArgs.table_count, the most tables to return, 0 for all
  table_count,
  \* the database file (committed content), its content before the call, and
  \* the connection: handle, number of connects, uncommitted view, transaction
  db, db_before, conn, opened, conn_db, in_transaction,
  \* locals of execute_sqlite_query
  pc, query_is_write, queries, idx, results, exc,
  \* how the call ended
  returned, raised, response,
  \* what the engine was asked to run, and which handler ran
  engine_log, failed_at, rollback_raised,
  \* the catalog of the database that the schema and metadata tools read,
  \* and config.get("query_db", "excluded_tables", [])
  catalog, excluded_tables,
  \* locals of get_sqlite_schema and get_sqlite_metadata
  all_objects, tpos, fk_map, tables, table_names, database_info, table_stats,
  total_rows,
  \* what the tools wrote with logger.warning and logger.error about one object
  log,
  \* ThreadService: user_id -> thread_id, and thread_id -> thread_data
  user_threads, active_threads,
  \* how many identifiers uuid.uuid4() has handed out
  uuids,
  \* for each user, the titles of the calls of ChatService.create_thread that
  \* have returned, and how many threads get_or_create_user_thread has made
  create_calls, implicit_threads,
  \* for each user, how many of the user's threads delete_thread has removed
  deleted_threads,
  \* the last call of the chat service: its method, its request, what it returned
  chat_call,
  \* AgentService: the agents by id and the active agent
  agents, active_agent,
  \* a call of stream_message: its arguments, where the generator stands, the
  \* events it has yielded, its locals full_content and metrics.toolUsage, and
  \* the messages the agent's stream has handed over so far
  message_text, agent_id, spc, events, full_content, total_calls, agent_messages

parse_vars == <<query_str, scan, parsed, ppc>>
input_vars == <<op, db_exists, query, enable_write, max_rows, table_count, db_before, catalog,
               excluded_tables>>
call_vars == <<db, conn, opened, conn_db, in_transaction, pc, query_is_write,
               queries, idx, results, exc, returned, raised, response,
               engine_log, failed_at, rollback_raised>>
tool_vars == <<all_objects, tpos, fk_map, tables, table_names, database_info,
               table_stats, total_rows, log>>
\* the part of call_vars that only execute_sqlite_query uses
exec_vars == <<db, conn_db, in_transaction, query_is_write, queries, idx, results,
               engine_log, failed_at, rollback_raised>>
chat_vars == <<user_threads, active_threads, uuids, create_calls, implicit_threads,
               deleted_threads, chat_call>>
stream_vars == <<agents, active_agent, message_text, agent_id, spc, events,
                 full_content, total_calls, agent_messages>>
vars == <<parse_vars, input_vars, call_vars, tool_vars, chat_vars, stream_vars>>

\* ------------------------------------------------------- the SQLite engine
\* The engine is the sqlite3 module in its default (legacy) transaction
\* control: it opens a transaction before INSERT/UPDATE/DELETE/REPLACE, runs
\* DDL in autocommit unless a transaction is open, undoes a failed statement
\* alone and keeps the transaction, and discards an open transaction on
\* close.  Table t holds rows; v is a view that CREATE makes.

\* the words of a statement, as the engine's tokenizer sees them
Words(st) == SelectSeq(st, LAMBDA c : c \notin Whitespace \cup {";"})

Kind(st) == IF Words(st) = << >> THEN "EMPTY" ELSE Upper(Words(st)[1])

IsDML(st) == Kind(st) \in {"INSERT", "UPDATE", "DELETE", "REPLACE"}

HasWord(st, w) == \E k \in 1..Len(st) : st[k] = w

\* sqlite3.Error raised by the statement itself
StatementFails(st, d, intx) ==
  \/ Kind(st) \notin {"EMPTY", "SELECT", "INSERT", "DELETE", "CREATE", "BEGIN"}
  \/ Kind(st) = "INSERT" /\ HasWord(st, "BAD")
  \/ Kind(st) = "CREATE" /\ d.has_view
  \/ Kind(st) = "BEGIN" /\ intx

\* in_transaction after the statement was stepped (also when it failed)
TxAfter(st, intx) ==
  \/ intx
  \/ IsDML(st)
  \/ Kind(st) = "BEGIN"

\* the connection's view after a successful statement
Apply(st, d) ==
  CASE Kind(st) = "INSERT" -> [d EXCEPT !.rows = Append(d.rows, Len(d.rows) + 1)]
    [] Kind(st) = "DELETE" -> [d EXCEPT !.rows = << >>]
    [] Kind(st) = "CREATE" -> [d EXCEPT !.has_view = TRUE]
    [] OTHER -> d

\* cursor.rowcount
RowCount(st, d) ==
  CASE Kind(st) = "INSERT" -> 1
    [] Kind(st) = "DELETE" -> Len(d.rows)
    [] OTHER -> -1

\* the rows the cursor can deliver, and cursor.description
CursorRows(st, d) == IF Kind(st) = "SELECT" THEN d.rows ELSE << >>

Description(st) == IF Kind(st) = "SELECT" THEN <<"id">> ELSE << >>

\* a fetch that also hands out the row after the limit
FetchManyAndOneMore(rows, size) == Slice(rows, 1, Min(size + 1, Len(rows)))

\* cursor.fetchmany(size)
FetchMany(rows, size) == Slice(rows, 1, Min(size, Len(rows)))

\* ----------------------------------------------------- execute_sqlite_query
DefaultMaxRows == 1000

\* Optional[int]: << >> is None, <<n>> is n
None == << >>
Some(n) == <<n>>

NoError == [msg |-> "None", pos |-> 0]
ErrNotFound == [msg |-> "Database file not found", pos |-> 0]
ErrDisabled == [msg |-> "Write operations are disabled in the configuration", pos |-> 0]
ErrQueryZeroBased(k) == [msg |-> "SQLite error (query)", pos |-> k - 1]
ErrQuery(k) == [msg |-> "SQLite error (query)", pos |-> k]
ErrSqlite == [msg |-> "SQLite error", pos |-> 0]
ErrUnexpected == [msg |-> "Unexpected error", pos |-> 0]

NoResponse == [tool |-> "none"]

ExecuteSqliteQueryResponse(res, err, is_write) ==
  [tool |-> "query", results |-> res, error |-> err, is_write_operation |-> is_write]

SqliteQueryResult(cols, rws, n, affected, sel, sql) ==
  [columns |-> cols, rows |-> rws, row_count |-> n, affected_rows |-> affected,
   is_select |-> sel, sql_executed |-> sql]

\* max_rows or config.get("query_db", "max_rows_return", 1000)
max_rows_return == IF max_rows # 0 THEN max_rows ELSE DefaultMaxRows

\* a policy that refuses nothing
WriteBlockedNever(is_write, enabled) == FALSE

\* query_is_write and not enable_write
WriteBlocked(is_write, enabled) == is_write /\ ~enabled

\* query_str.strip().upper().startswith("SELECT") or "SELECT" in ...upper()
is_select(st) == \E k \in 1..Len(st) : Upper(st[k]) = "SELECT"

\* the result built for a statement that ran
ResultOf(st, d) ==
  IF is_select(st)
  THEN LET rws == FetchMany(CursorRows(st, d), max_rows_return) IN
       SqliteQueryResult(Description(st), rws, Len(rws), None, TRUE, st)
  ELSE SqliteQueryResult(<< >>, << >>, 0, Some(RowCount(st, d)), FALSE, st)

\* the per-statement commit is asked for when
CommitAfterStatement(is_write, intx) == is_write /\ ~intx

\* the commit at the end of the batch is asked for when
CommitAtEnd(is_write, intx) == is_write /\ intx

\* lines 213-236: the existence check, the write policy, the split
ExecStart ==
  /\ op = "query" /\ pc = "start"
  /\ IF ~db_exists THEN
       /\ response' = ExecuteSqliteQueryResponse(<< >>, ErrNotFound, FALSE)
       /\ returned' = TRUE
       /\ pc' = "done"
       /\ UNCHANGED <<query_is_write, queries>>
     ELSE IF WriteBlocked(is_write_operation(query), enable_write) THEN
       /\ response' = ExecuteSqliteQueryResponse(<< >>, ErrDisabled, TRUE)
       /\ returned' = TRUE
       /\ pc' = "done"
       /\ query_is_write' = is_write_operation(query)
       /\ UNCHANGED queries
     ELSE
       /\ query_is_write' = is_write_operation(query)
       /\ queries' = parse_multiple_queries(query)
       /\ pc' = "connect"
       /\ UNCHANGED <<response, returned>>
  /\ UNCHANGED <<db, conn, opened, conn_db, in_transaction, idx, results, exc,
                 raised, engine_log, failed_at, rollback_raised>>
  /\ UNCHANGED <<stream_vars, chat_vars, parse_vars, input_vars, tool_vars>>

\* line 253: sqlite3.connect, which may raise
ExecConnect ==
  /\ op = "query" /\ pc = "connect"
  /\ \E ok \in BOOLEAN :
       IF ok
       THEN /\ conn' = "open"
            /\ opened' = opened + 1
            /\ conn_db' = db
            /\ pc' = "pragma"
            /\ UNCHANGED exc
       ELSE /\ exc' = "sqlite3.Error"
            /\ pc' = "outer_except"
            /\ UNCHANGED <<conn, opened, conn_db>>
  /\ UNCHANGED <<db, in_transaction, query_is_write, queries, idx, results,
                 returned, raised, response, engine_log, failed_at, rollback_raised>>
  /\ UNCHANGED <<stream_vars, chat_vars, parse_vars, input_vars, tool_vars>>

\* line 259: PRAGMA foreign_keys = ON, which may raise
ExecPragma ==
  /\ op = "query" /\ pc = "pragma"
  /\ \E ok \in BOOLEAN :
       IF ok
       THEN /\ pc' = "loop"
            /\ idx' = 1
            /\ UNCHANGED exc
       ELSE /\ exc' = "sqlite3.Error"
            /\ pc' = "outer_except"
            /\ UNCHANGED idx
  /\ UNCHANGED <<db, conn, opened, conn_db, in_transaction, query_is_write,
                 queries, results, returned, raised, response, engine_log,
                 failed_at, rollback_raised>>
  /\ UNCHANGED <<stream_vars, chat_vars, parse_vars, input_vars, tool_vars>>

\* lines 262-323: a statement that runs without raising
ExecStatement ==
  /\ op = "query" /\ pc = "loop" /\ idx <= Len(queries)
  /\ LET st == queries[idx]
         tx1 == TxAfter(st, in_transaction)
         d1 == Apply(st, conn_db)
         commits == CommitAfterStatement(query_is_write, tx1)
     IN
     IF Strip(st) = << >> THEN
       \* continue
       /\ idx' = idx + 1
       /\ UNCHANGED <<db, conn_db, in_transaction, results, engine_log>>
     ELSE
       /\ ~StatementFails(st, conn_db, in_transaction)
       /\ engine_log' = Append(engine_log, st)
       /\ conn_db' = d1
       /\ db' = IF ~tx1 \/ commits THEN d1 ELSE db
       /\ in_transaction' = (tx1 /\ ~commits)
       /\ results' = Append(results, ResultOf(st, conn_db))
       /\ idx' = idx + 1
  /\ UNCHANGED <<conn, opened, pc, query_is_write, queries, exc, returned, raised,
                 response, failed_at, rollback_raised>>
  /\ UNCHANGED <<stream_vars, chat_vars, parse_vars, input_vars, tool_vars>>

\* a rollback that leaves the connection's uncommitted changes in place
RollbackKeepsChanges(committed, view) == view

\* conn.rollback(): the connection sees the committed database again
Rollback(committed, view) == committed

\* lines 273-283 raising sqlite3.Error, and lines 325-334 handling it: the
\* statement is wrong, or the engine fails on it (locked file, I/O error,
\* error while fetching)
ExecStatementError ==
  /\ op = "query" /\ pc = "loop" /\ idx <= Len(queries)
  /\ Strip(queries[idx]) # << >>
  /\ \E engine_fault \in BOOLEAN :
       engine_fault \/ StatementFails(queries[idx], conn_db, in_transaction)
  /\ engine_log' = Append(engine_log, queries[idx])
  /\ failed_at' = idx
  \* conn.rollback()
  /\ conn_db' = Rollback(db, conn_db)
  /\ in_transaction' = FALSE
  /\ response' = ExecuteSqliteQueryResponse(results, ErrQuery(idx), query_is_write)
  /\ returned' = TRUE
  /\ pc' = "finally"
  /\ UNCHANGED <<db, conn, opened, query_is_write, queries, idx, results, exc,
                 raised, rollback_raised>>
  /\ UNCHANGED <<stream_vars, chat_vars, parse_vars, input_vars, tool_vars>>

\* the same, with conn.rollback() at line 327 raising sqlite3.Error inside the
\* handler: the exception leaves the inner try and reaches line 352
ExecStatementErrorRollbackRaises ==
  /\ op = "query" /\ pc = "loop" /\ idx <= Len(queries)
  /\ Strip(queries[idx]) # << >>
  /\ \E engine_fault \in BOOLEAN :
       engine_fault \/ StatementFails(queries[idx], conn_db, in_transaction)
  /\ TxAfter(queries[idx], in_transaction)
  /\ engine_log' = Append(engine_log, queries[idx])
  /\ failed_at' = idx
  /\ rollback_raised' = TRUE
  /\ \E still_open \in BOOLEAN :
       /\ in_transaction' = still_open
       /\ conn_db' = IF still_open THEN conn_db ELSE db
  /\ exc' = "sqlite3.Error"
  /\ pc' = "outer_except"
  /\ UNCHANGED <<db, conn, opened, query_is_write, queries, idx, results,
                 returned, raised, response>>
  /\ UNCHANGED <<stream_vars, chat_vars, parse_vars, input_vars, tool_vars>>

\* lines 273-316 raising an exception that is no sqlite3.Error: not caught at
\* line 325, it reaches line 363
ExecStatementUnexpected ==
  /\ op = "query" /\ pc = "loop" /\ idx <= Len(queries)
  /\ Strip(queries[idx]) # << >>
  /\ engine_log' = Append(engine_log, queries[idx])
  /\ in_transaction' = TxAfter(queries[idx], in_transaction)
  /\ exc' = "Exception"
  /\ pc' = "outer_except"
  /\ UNCHANGED <<db, conn, opened, conn_db, query_is_write, queries, idx, results,
                 returned, raised, response, failed_at, rollback_raised>>
  /\ UNCHANGED <<stream_vars, chat_vars, parse_vars, input_vars, tool_vars>>

\* lines 336-350: the commit at the end and the response of a whole batch
ExecBatchEnd ==
  /\ op = "query" /\ pc = "loop" /\ idx > Len(queries)
  /\ db' = IF CommitAtEnd(query_is_write, in_transaction) THEN conn_db ELSE db
  /\ in_transaction' = (in_transaction /\ ~CommitAtEnd(query_is_write, in_transaction))
  /\ response' = ExecuteSqliteQueryResponse(results, NoError, query_is_write)
  /\ returned' = TRUE
  /\ pc' = "finally"
  /\ UNCHANGED <<conn, opened, conn_db, query_is_write, queries, idx, results,
                 exc, raised, engine_log, failed_at, rollback_raised>>
  /\ UNCHANGED <<stream_vars, chat_vars, parse_vars, input_vars, tool_vars>>

\* lines 352-374: except sqlite3.Error / except Exception around the call
ExecOuterExcept ==
  /\ op = "query" /\ pc = "outer_except"
  \* if conn and conn.in_transaction: conn.rollback()
  /\ conn_db' = IF conn = "open" THEN Rollback(db, conn_db) ELSE conn_db
  /\ in_transaction' = FALSE
  /\ response' = ExecuteSqliteQueryResponse(
                    results,
                    IF exc = "sqlite3.Error" THEN ErrSqlite ELSE ErrUnexpected,
                    query_is_write)
  /\ returned' = TRUE
  /\ pc' = "finally"
  /\ UNCHANGED <<db, conn, opened, query_is_write, queries, idx, results, exc,
                 raised, engine_log, failed_at, rollback_raised>>
  /\ UNCHANGED <<stream_vars, chat_vars, parse_vars, input_vars, tool_vars>>

\* the same, with conn.rollback() at line 354 or 365 raising: an exception
\* raised in an except clause is not handled by its sibling clauses, so after
\* the finally clause it reaches the caller
ExecOuterExceptRollbackRaises ==
  /\ op = "query" /\ pc = "outer_except"
  /\ conn = "open" /\ in_transaction
  /\ raised' = TRUE
  /\ rollback_raised' = TRUE
  /\ pc' = "finally"
  /\ UNCHANGED <<db, conn, opened, conn_db, in_transaction, query_is_write,
                 queries, idx, results, exc, returned, response, engine_log,
                 failed_at>>
  /\ UNCHANGED <<stream_vars, chat_vars, parse_vars, input_vars, tool_vars>>

\* a finally clause that closes nothing
ClosesNever(c) == FALSE

\* does the finally clause close the connection
ClosesInFinally(c) == c = "open"

\* lines 375-377: finally: if conn: conn.close()
ExecFinally ==
  /\ op = "query" /\ pc = "finally"
  /\ IF ClosesInFinally(conn)
     THEN /\ conn' = "closed"
          /\ conn_db' = db
          /\ in_transaction' = FALSE
     ELSE UNCHANGED <<conn, conn_db, in_transaction>>
  /\ pc' = "done"
  /\ UNCHANGED <<db, opened, query_is_write, queries, idx, results, exc,
                 returned, raised, response, engine_log, failed_at, rollback_raised>>
  /\ UNCHANGED <<stream_vars, chat_vars, parse_vars, input_vars, tool_vars>>

\* ------------------------------------------------------- get_sqlite_schema
\* The catalog is the content of sqlite_master in creation order.  An object
\* has a type, a name, the rows of PRAGMA table_info (columns), the rows of
\* PRAGMA foreign_key_list (fks) and a row count.
MaxObjects == 2

ObjT == [type |-> "table", name |-> "t",
         columns |-> << [name |-> "id", type |-> "INTEGER", pk |-> 1] >>,
         fks |-> << >>, rows |-> 2]
\* t_id INTEGER REFERENCES t(id)
ObjU == [type |-> "table", name |-> "u",
         columns |-> << [name |-> "id", type |-> "INTEGER", pk |-> 1],
                        [name |-> "t_id", type |-> "INTEGER", pk |-> 0] >>,
         fks |-> << [from |-> "t_id", table |-> "t", to |-> Some("id")] >>,
         rows |-> 1]
\* t_id INTEGER REFERENCES t: the list has NULL as the referenced column
ObjP == [type |-> "table", name |-> "p",
         columns |-> << [name |-> "t_id", type |-> "INTEGER", pk |-> 0] >>,
         fks |-> << [from |-> "t_id", table |-> "t", to |-> None] >>, rows |-> 0]
\* x INTEGER REFERENCES "a.b"(id): a table name with a dot in it
ObjW == [type |-> "table", name |-> "w",
         columns |-> << [name |-> "x", type |-> "INTEGER", pk |-> 0] >>,
         fks |-> << [from |-> "x", table |-> "a.b", to |-> Some("id")] >>,
         rows |-> 0]
ObjV == [type |-> "view", name |-> "v",
         columns |-> << [name |-> "id", type |-> "INTEGER", pk |-> 0] >>,
         fks |-> << >>, rows |-> 2]

\* the place of a name in the order of the names
NameRank(name) ==
  CASE name = "p" -> 1 [] name = "t" -> 2 [] name = "u" -> 3 [] name = "v" -> 4
    [] name = "w" -> 5

\* ORDER BY type, name
ObjectBefore(a, b) ==
  \/ a.type = "table" /\ b.type = "view"
  \/ a.type = b.type /\ NameRank(a.name) < NameRank(b.name)

RECURSIVE InsertObject(_, _)
InsertObject(sorted, o) ==
  IF sorted = << >> THEN <<o>>
  ELSE IF ObjectBefore(o, Head(sorted)) THEN <<o>> \o sorted
  ELSE <<Head(sorted)>> \o InsertObject(Tail(sorted), o)

RECURSIVE SortObjects(_)
SortObjects(objs) ==
  IF objs = << >> THEN << >>
  ELSE InsertObject(SortObjects(Tail(objs)), Head(objs))

\* SELECT type, name FROM sqlite_master WHERE type IN ('table', 'view')
\* ORDER BY type, name
SelectTablesAndViews(cat) ==
  SortObjects(SelectSeq(cat, LAMBDA o : o.type \in {"table", "view"}))

\* a dict whose keys are the arguments that are not None
GetSqliteSchemaResponse(database_schema, tables_arg, error) ==
  LET arg(k) == CASE k = "database_schema" -> database_schema
                  [] k = "tables" -> tables_arg
                  [] k = "error" -> error
      present == {k \in {"database_schema", "tables", "error"} : arg(k) # None}
  IN [tool |-> "schema", body |-> [k \in present |-> arg(k)[1]]]

DatabaseStructure(databases) == [databases |-> databases]
Database(name, tbls) == [name |-> name, tables |-> tbls]
Table(name, columns) == [name |-> name, columns |-> columns]
Column(name, type, primary_key, foreign_key, references) ==
  [name |-> name, type |-> type, primary_key |-> primary_key,
   foreign_key |-> foreign_key, references |-> references]

\* A formatted string is the sequence of its pieces: a name without a dot
\* is one piece, a dot is a piece of its own.
NameParts(name) == IF name = "a.b" THEN <<"a", ".", "b">> ELSE <<name>>

\* str(x) inside an f-string: None is written as the text None
Str(x) == IF x = None THEN "None" ELSE x[1]

\* f"{a}.{b}"
Dotted(a, b) == NameParts(a) \o <<".">> \o NameParts(b)

\* text.split("."): the pieces between the dots
RECURSIVE SplitDots(_)
SplitDots(text) ==
  IF \A k \in 1..Len(text) : text[k] # "." THEN << text >>
  ELSE LET d == CHOOSE k \in 1..Len(text) :
                  text[k] = "." /\ \A j \in 1..k-1 : text[j] # "."
       IN << Slice(text, 1, d - 1) >> \o SplitDots(Slice(text, d + 1, Len(text)))

\* a piece of a split as a string
Piece(part) == IF part = << >> THEN "" ELSE part[1]

\* fk_map after the foreign keys of obj were stored in it
StoreForeignKeys(map, obj) ==
  LET new == { Dotted(obj.name, obj.fks[k].from) : k \in 1..Len(obj.fks) }
      last(key) == CHOOSE k \in 1..Len(obj.fks) :
                     /\ Dotted(obj.name, obj.fks[k].from) = key
                     /\ \A j \in k+1..Len(obj.fks) :
                          Dotted(obj.name, obj.fks[j].from) # key
  IN [key \in DOMAIN map \cup new |->
        IF key \in new
        THEN Dotted(obj.fks[last(key)].table, Str(obj.fks[last(key)].to))
        ELSE map[key]]

\* lines 167-191: the Column built for one row of table_info
ColumnOf(obj_name, col, map) ==
  LET fk_key == Dotted(obj_name, col.name)
      is_fk == fk_key \in DOMAIN map
      ref == SplitDots(map[fk_key])
  IN Column(col.name, col.type, col.pk # 0, is_fk,
            IF is_fk THEN Some([table |-> Piece(ref[1]), column |-> Piece(ref[2])])
            ELSE None)

\* lines 110-117: the existence check
SchemaStart ==
  /\ op = "schema" /\ pc = "start"
  /\ IF ~db_exists
     THEN /\ response' = GetSqliteSchemaResponse(None, None, Some(ErrNotFound))
          /\ returned' = TRUE
          /\ pc' = "done"
     ELSE /\ pc' = "connect"
          /\ UNCHANGED <<response, returned>>
  /\ UNCHANGED <<conn, opened, exc, raised>>
  /\ UNCHANGED <<stream_vars, chat_vars, parse_vars, input_vars, exec_vars, tool_vars>>

\* lines 119-120: sqlite3.connect, which may raise
SchemaConnect ==
  /\ op = "schema" /\ pc = "connect"
  /\ \E ok \in BOOLEAN :
       IF ok
       THEN /\ conn' = "open"
            /\ opened' = opened + 1
            /\ pc' = "list"
            /\ UNCHANGED exc
       ELSE /\ exc' = "sqlite3.Error"
            /\ pc' = "outer_except"
            /\ UNCHANGED <<conn, opened>>
  /\ UNCHANGED <<returned, raised, response>>
  /\ UNCHANGED <<stream_vars, chat_vars, parse_vars, input_vars, exec_vars, tool_vars>>

\* lines 123-135: the query on sqlite_master, which may raise
SchemaListObjects ==
  /\ op = "schema" /\ pc = "list"
  /\ \E outcome \in {"ok", "engine", "unexpected"} :
       IF outcome = "ok"
       THEN /\ all_objects' = SelectTablesAndViews(catalog)
            /\ tpos' = 1
            /\ pc' = "fk"
            /\ UNCHANGED exc
       ELSE /\ exc' = IF outcome = "engine" THEN "sqlite3.Error" ELSE "Exception"
            /\ pc' = "outer_except"
            /\ UNCHANGED <<all_objects, tpos>>
  /\ UNCHANGED <<conn, opened, returned, raised, response>>
  /\ UNCHANGED <<fk_map, tables, table_names, database_info, table_stats, total_rows, log>>
  /\ UNCHANGED <<stream_vars, chat_vars, parse_vars, input_vars, exec_vars>>

\* lines 138-153: first pass, the foreign keys of one object
SchemaForeignKeys ==
  /\ op = "schema" /\ pc = "fk" /\ tpos <= Len(all_objects)
  /\ LET obj == all_objects[tpos] IN
     IF obj.type = "table"
     THEN \E ok \in BOOLEAN :
            /\ fk_map' = IF ok THEN StoreForeignKeys(fk_map, obj) ELSE fk_map
            /\ log' = IF ok THEN log
                      ELSE Append(log, <<"warning", "foreign keys", obj.name>>)
     ELSE UNCHANGED <<fk_map, log>>
  /\ tpos' = tpos + 1
  /\ UNCHANGED <<conn, opened, pc, exc, returned, raised, response>>
  /\ UNCHANGED <<all_objects, tables, table_names, database_info, table_stats, total_rows>>
  /\ UNCHANGED <<stream_vars, chat_vars, parse_vars, input_vars, exec_vars>>

\* line 156: the first pass is over, the second pass starts
SchemaSecondPass ==
  /\ op = "schema" /\ pc = "fk" /\ tpos > Len(all_objects)
  /\ pc' = "build"
  /\ tpos' = 1
  /\ UNCHANGED <<conn, opened, exc, returned, raised, response>>
  /\ UNCHANGED <<all_objects, fk_map, tables, table_names, database_info, table_stats,
                 total_rows, log>>
  /\ UNCHANGED <<stream_vars, chat_vars, parse_vars, input_vars, exec_vars>>

\* lines 156-203: second pass, the columns of one object
SchemaBuildTable ==
  /\ op = "schema" /\ pc = "build" /\ tpos <= Len(all_objects)
  /\ LET obj == all_objects[tpos]
         columns == [k \in 1..Len(obj.columns) |->
                       ColumnOf(obj.name, obj.columns[k], fk_map)]
     IN
     /\ table_names' = Append(table_names, obj.name)
     /\ \E ok \in BOOLEAN :
          /\ tables' = IF ok THEN Append(tables, Table(obj.name, columns)) ELSE tables
          /\ log' = IF ok THEN log ELSE Append(log, <<"error", "columns", obj.name>>)
  /\ tpos' = tpos + 1
  /\ UNCHANGED <<conn, opened, pc, exc, returned, raised, response>>
  /\ UNCHANGED <<all_objects, fk_map, database_info, table_stats, total_rows>>
  /\ UNCHANGED <<stream_vars, chat_vars, parse_vars, input_vars, exec_vars>>

\* lines 205-220: the response of a whole extraction
SchemaReturn ==
  /\ op = "schema" /\ pc = "build" /\ tpos > Len(all_objects)
  /\ response' = GetSqliteSchemaResponse(
                    Some(DatabaseStructure(<< Database("database_name", tables) >>)),
                    Some(table_names), None)
  /\ returned' = TRUE
  /\ pc' = "finally"
  /\ UNCHANGED <<conn, opened, exc, raised>>
  /\ UNCHANGED <<stream_vars, chat_vars, parse_vars, input_vars, exec_vars, tool_vars>>

\* lines 222-230: except sqlite3.Error / except Exception
SchemaOuterExcept ==
  /\ op = "schema" /\ pc = "outer_except"
  /\ response' = GetSqliteSchemaResponse(
                    None, None,
                    Some(IF exc = "sqlite3.Error" THEN ErrSqlite ELSE ErrUnexpected))
  /\ returned' = TRUE
  /\ pc' = "finally"
  /\ UNCHANGED <<conn, opened, exc, raised>>
  /\ UNCHANGED <<stream_vars, chat_vars, parse_vars, input_vars, exec_vars, tool_vars>>

\* lines 231-233: finally: if conn: conn.close()
SchemaFinally ==
  /\ op = "schema" /\ pc = "finally"
  /\ conn' = IF ClosesInFinally(conn) THEN "closed" ELSE conn
  /\ pc' = "done"
  /\ UNCHANGED <<opened, exc, returned, raised, response>>
  /\ UNCHANGED <<stream_vars, chat_vars, parse_vars, input_vars, exec_vars, tool_vars>>

\* ----------------------------------------------------- get_sqlite_metadata
SQLiteMetadataResponse(info, stats_list, stats, error) ==
  [tool |-> "metadata", database_info |-> info, table_stats |-> stats_list,
   stats |-> stats, error |-> error]

DatabaseStats(databaseCount, tableCount, rowCount) ==
  [databaseCount |-> databaseCount, tableCount |-> tableCount, rowCount |-> rowCount]

\* DatabaseStats() with the defaults of its constructor
DatabaseStatsDefault == DatabaseStats(0, 0, 0)

\* {} as a dict
EmptyDict == << >>

\* SELECT name FROM sqlite_master WHERE type='table', in catalog order
SelectTableNames(cat) ==
  LET tbls == SelectSeq(cat, LAMBDA o : o.type = "table")
  IN [k \in 1..Len(tbls) |-> tbls[k].name]

\* [name for name in all_tables if name not in excluded_tables]
FilterExcluded(names, excluded) == SelectSeq(names, LAMBDA n : n \notin excluded)

ObjectNamed(cat, name) == cat[CHOOSE k \in 1..Len(cat) : cat[k].name = name]

\* lines 222-230: the entry of a table that was analysed
TableStatsEntry(name, row_count, column_count, index_count, avg_row_size) ==
  [name |-> name, row_count |-> row_count, column_count |-> column_count,
   index_count |-> index_count, avg_row_size_bytes |-> avg_row_size,
   estimated_size_bytes |-> avg_row_size * row_count]

\* an entry for a failed analysis that does not say so
TableStatsErrorEntryWithoutError(name) ==
  [name |-> name, row_count |-> 0, column_count |-> 0, index_count |-> 0,
   avg_row_size_bytes |-> 0, estimated_size_bytes |-> 0]

\* lines 235-244: the entry of a table whose analysis raised
TableStatsErrorEntry(name) ==
  [name |-> name, row_count |-> 0, column_count |-> 0, index_count |-> 0,
   avg_row_size_bytes |-> 0, estimated_size_bytes |-> 0, error |-> "str(e)"]

\* lines 101-113: the existence check
MetaStart ==
  /\ op = "metadata" /\ pc = "start"
  /\ IF ~db_exists
     THEN /\ response' = SQLiteMetadataResponse(EmptyDict, << >>, DatabaseStatsDefault,
                                                ErrNotFound)
          /\ returned' = TRUE
          /\ pc' = "done"
     ELSE /\ pc' = "connect"
          /\ UNCHANGED <<response, returned>>
  /\ UNCHANGED <<conn, opened, exc, raised>>
  /\ UNCHANGED <<stream_vars, chat_vars, parse_vars, input_vars, exec_vars, tool_vars>>

\* lines 116-128: the file's size and times, which may raise OSError, the
\* configuration, and sqlite3.connect, which may raise sqlite3.Error
MetaConnect ==
  /\ op = "metadata" /\ pc = "connect"
  /\ \E outcome \in {"ok", "engine", "unexpected"} :
       IF outcome = "ok"
       THEN /\ conn' = "open"
            /\ opened' = opened + 1
            /\ pc' = "pragmas"
            /\ UNCHANGED exc
       ELSE /\ exc' = IF outcome = "engine" THEN "sqlite3.Error" ELSE "Exception"
            /\ pc' = "outer_except"
            /\ UNCHANGED <<conn, opened>>
  /\ UNCHANGED <<returned, raised, response>>
  /\ UNCHANGED <<stream_vars, chat_vars, parse_vars, input_vars, exec_vars, tool_vars>>

\* lines 131-159: the five pragmas, which may raise, and database_info
MetaPragmas ==
  /\ op = "metadata" /\ pc = "pragmas"
  /\ \E ok \in BOOLEAN :
       IF ok
       THEN /\ database_info' = [name |-> "database_name", path |-> "db_path"]
            /\ pc' = "list"
            /\ UNCHANGED exc
       ELSE /\ exc' = "sqlite3.Error"
            /\ pc' = "outer_except"
            /\ UNCHANGED database_info
  /\ UNCHANGED <<conn, opened, returned, raised, response>>
  /\ UNCHANGED <<all_objects, tpos, fk_map, tables, table_names, table_stats, total_rows, log>>
  /\ UNCHANGED <<stream_vars, chat_vars, parse_vars, input_vars, exec_vars>>

\* lines 162-175: the list of tables, which may raise, without the excluded ones
MetaListTables ==
  /\ op = "metadata" /\ pc = "list"
  /\ \E ok \in BOOLEAN :
       IF ok
       THEN /\ table_names' = FilterExcluded(SelectTableNames(catalog), excluded_tables)
            /\ tpos' = 1
            /\ pc' = "tables"
            /\ UNCHANGED exc
       ELSE /\ exc' = "sqlite3.Error"
            /\ pc' = "outer_except"
            /\ UNCHANGED <<table_names, tpos>>
  /\ UNCHANGED <<conn, opened, returned, raised, response>>
  /\ UNCHANGED <<all_objects, fk_map, tables, database_info, table_stats, total_rows, log>>
  /\ UNCHANGED <<stream_vars, chat_vars, parse_vars, input_vars, exec_vars>>

\* lines 178-244: the statistics of one table.  COUNT(*) may raise (row count
\* 0), the sampling may raise (average size 0), table_info or index_list may
\* raise (the entry with the error).
MetaTable ==
  /\ op = "metadata" /\ pc = "tables" /\ tpos <= Len(table_names)
  /\ LET table_name == table_names[tpos]
         obj == ObjectNamed(catalog, table_name)
     IN \E count_ok \in BOOLEAN, sample_ok \in BOOLEAN, rest_ok \in BOOLEAN :
          LET row_count == IF count_ok THEN obj.rows ELSE 0
              avg_row_size == IF row_count > 0 /\ sample_ok THEN 1 ELSE 0
          IN
          /\ total_rows' = total_rows + row_count
          /\ table_stats' =
               IF rest_ok
               THEN Append(table_stats,
                           TableStatsEntry(table_name, row_count, Len(obj.columns),
                                           0, avg_row_size))
               ELSE Append(table_stats, TableStatsErrorEntry(table_name))
          /\ log' = (IF count_ok THEN log
                     ELSE Append(log, <<"warning", "count", table_name>>))
                    \o (IF rest_ok THEN << >>
                        ELSE << <<"error", "analysis", table_name>> >>)
  /\ tpos' = tpos + 1
  /\ UNCHANGED <<conn, opened, pc, exc, returned, raised, response>>
  /\ UNCHANGED <<all_objects, fk_map, tables, table_names, database_info>>
  /\ UNCHANGED <<stream_vars, chat_vars, parse_vars, input_vars, exec_vars>>

\* lines 246-260: the statistics and the response of a whole extraction
MetaReturn ==
  /\ op = "metadata" /\ pc = "tables" /\ tpos > Len(table_names)
  /\ response' = SQLiteMetadataResponse(
                    database_info, table_stats,
                    DatabaseStats(1, Len(table_names), total_rows), NoError)
  /\ returned' = TRUE
  /\ pc' = "finally"
  /\ UNCHANGED <<conn, opened, exc, raised>>
  /\ UNCHANGED <<stream_vars, chat_vars, parse_vars, input_vars, exec_vars, tool_vars>>

\* lines 262-280: except sqlite3.Error / except Exception
MetaOuterExcept ==
  /\ op = "metadata" /\ pc = "outer_except"
  /\ response' = SQLiteMetadataResponse(
                    EmptyDict, << >>, DatabaseStatsDefault,
                    IF exc = "sqlite3.Error" THEN ErrSqlite ELSE ErrUnexpected)
  /\ returned' = TRUE
  /\ pc' = "finally"
  /\ UNCHANGED <<conn, opened, exc, raised>>
  /\ UNCHANGED <<stream_vars, chat_vars, parse_vars, input_vars, exec_vars, tool_vars>>

\* lines 281-283: finally: if conn: conn.close()
MetaFinally ==
  /\ op = "metadata" /\ pc = "finally"
  /\ conn' = IF ClosesInFinally(conn) THEN "closed" ELSE conn
  /\ pc' = "done"
  /\ UNCHANGED <<opened, exc, returned, raised, response>>
  /\ UNCHANGED <<stream_vars, chat_vars, parse_vars, input_vars, exec_vars, tool_vars>>

\* -------------------------------------------------------- the chat service
\* ChatService over the ThreadService singleton, without a db_service (as
\* get_chat_service builds it).  A text is the sequence of its words.  An
\* identifier of uuid.uuid4() is the number of the call that made it, and ""
\* as a thread_id is 0.  Timestamps and metadata are left out.
MaxIds == 3            \* most identifiers uuid4 hands out
MaxCreates == 2        \* most create_thread calls

Users == {"u1", "u2"}
Titles == { <<"SQL", "Query">>, <<"Python">> }
Contents == { <<"join", "tables">> }
SystemText == <<"be", "brief">>
SearchQueries == { <<"SQL">>, <<"join", "tables">> }

\* thread_service.py line 167: the longest last message shown whole
PreviewLen == 50

CreateThreadRequest(user_id, title, system_message) ==
  [user_id |-> user_id, title |-> title, system_message |-> system_message]

AddMessageRequest(thread_id, role, content, user_id) ==
  [thread_id |-> thread_id, role |-> role, content |-> content, user_id |-> user_id]

ChatMessage(id, thread_id, role, content, user_id) ==
  [id |-> id, thread_id |-> thread_id, role |-> role, content |-> content,
   user_id |-> user_id]

\* the ChatThread as its caller reads it: id, user_id, title
ChatThread(id, user_id, title) == [id |-> id, user_id |-> user_id, title |-> title]

ChatThreadSummary(id, user_id, title, message_count, last_message_preview) ==
  [id |-> id, user_id |-> user_id, title |-> title, message_count |-> message_count,
   last_message_preview |-> last_message_preview]

ChatThreadList(threads, total) ==
  [threads |-> threads, total |-> total, has_more |-> FALSE, page |-> 1,
   page_size |-> 20]

\* the value in thread_service.active_threads
ThreadData(id, user_id, title, messages) ==
  [id |-> id, user_id |-> user_id, title |-> title, messages |-> messages]

\* d[k] = v
DictSet(d, k, v) == [x \in DOMAIN d \cup {k} |-> IF x = k THEN v ELSE d[x]]

\* "if x:" for an optional text
Truthy(x) == x # None /\ x[1] # << >>

\* the user has a thread and the thread is stored
HasThread(ut, at, user_id) == user_id \in DOMAIN ut /\ ut[user_id] \in DOMAIN at

\* ThreadService.get_thread of a stored thread
get_thread(at, thread_id) ==
  ChatThread(at[thread_id].id, at[thread_id].user_id, at[thread_id].title)

\* ThreadService.add_message_to_thread: nothing happens for an unknown thread
add_message_to_thread(at, thread_id, message) ==
  IF thread_id \notin DOMAIN at THEN at
  ELSE [at EXCEPT ![thread_id].messages = Append(@, message)]

\* last_message[:50] + "..." if it is longer than 50, else the last message
Preview(last_message) ==
  IF last_message # None /\ Len(last_message[1]) > PreviewLen
  THEN Some(SubSeq(last_message[1], 1, PreviewLen) \o <<"...">>)
  ELSE last_message

\* ThreadService.list_threads
list_threads(ut, at, user_id) ==
  LET threads ==
        IF HasThread(ut, at, user_id)
        THEN LET thread_data == at[ut[user_id]]
                 message_count == Len(thread_data.messages)
                 last_message ==
                   IF message_count > 0
                   THEN Some(thread_data.messages[message_count].content)
                   ELSE None
             IN << ChatThreadSummary(ut[user_id], user_id, thread_data.title,
                                     message_count, Preview(last_message)) >>
        ELSE << >>
  IN ChatThreadList(threads, Len(threads))

\* how many create_thread calls the users in us have made
RECURSIVE CreateCalls(_, _)
CreateCalls(calls, us) ==
  IF us = {} THEN 0
  ELSE LET u == CHOOSE x \in us : TRUE
       IN Len(calls[u]) + CreateCalls(calls, us \ {u})

\* ChatService.create_thread: ThreadService.create_thread gives back the
\* thread the user has, or stores a new one, and a system message is added
ChatCreateThread ==
  \E user_id \in Users, title \in Titles, system_message \in {None, Some(SystemText)} :
    LET request == CreateThreadRequest(user_id, title, system_message)
        has == HasThread(user_threads, active_threads, user_id)
        thread_id == IF has THEN user_threads[user_id] ELSE uuids + 1
        ut == IF has THEN user_threads ELSE DictSet(user_threads, user_id, thread_id)
        at == IF has THEN active_threads
              ELSE DictSet(active_threads, thread_id,
                           ThreadData(thread_id, user_id, title, << >>))
        thread == IF has THEN get_thread(active_threads, thread_id)
                  ELSE ChatThread(thread_id, user_id, title)
        made == IF has THEN uuids ELSE uuids + 1
        message == ChatMessage(made + 1, thread.id, "system", system_message[1],
                               Some(user_id))
    IN /\ op = "chat"
       /\ CreateCalls(create_calls, Users) < MaxCreates
       /\ made + (IF Truthy(system_message) THEN 1 ELSE 0) <= MaxIds
       /\ user_threads' = ut
       /\ IF Truthy(system_message)
          THEN /\ active_threads' = add_message_to_thread(at, thread.id, message)
               /\ uuids' = made + 1
          ELSE /\ active_threads' = at
               /\ uuids' = made
       /\ create_calls' = [create_calls EXCEPT ![user_id] = Append(@, title)]
       /\ chat_call' = [method |-> "create_thread", request |-> request,
                        result |-> thread]
       /\ UNCHANGED <<implicit_threads, deleted_threads>>
       /\ UNCHANGED <<stream_vars, parse_vars, input_vars, call_vars, tool_vars>>

\* ChatService.add_message: a request with a user and without a thread_id
\* goes to the user's thread, which get_or_create_user_thread makes if needed
ChatAddMessage ==
  \E thread_id \in DOMAIN active_threads \cup {0}, content \in Contents,
     user_id \in {None} \cup {Some(u) : u \in Users} :
    LET implicit == user_id # None /\ thread_id = 0
        has == implicit /\ HasThread(user_threads, active_threads, user_id[1])
        creates == implicit /\ ~has
        tid == IF ~implicit THEN thread_id
               ELSE IF has THEN user_threads[user_id[1]] ELSE uuids + 1
        ut == IF creates THEN DictSet(user_threads, user_id[1], tid) ELSE user_threads
        at == IF creates
              THEN DictSet(active_threads, tid,
                           ThreadData(tid, user_id[1], <<user_id[1], "'s", "Thread">>,
                                      << >>))
              ELSE active_threads
        made == IF creates THEN uuids + 1 ELSE uuids
        request == AddMessageRequest(tid, "user", content, user_id)
        message == ChatMessage(made + 1, tid, "user", content, user_id)
    IN /\ op = "chat"
       \* a request that names a thread is the owner's or has no user
       /\ thread_id # 0 => user_id \in {None, Some(active_threads[thread_id].user_id)}
       /\ made + 1 <= MaxIds
       /\ user_threads' = ut
       /\ active_threads' = add_message_to_thread(at, tid, message)
       /\ uuids' = made + 1
       /\ implicit_threads' = IF creates
                              THEN [implicit_threads EXCEPT ![user_id[1]] = @ + 1]
                              ELSE implicit_threads
       /\ chat_call' = [method |-> "add_message", request |-> request,
                        result |-> message]
       /\ UNCHANGED <<create_calls, deleted_threads>>
       /\ UNCHANGED <<stream_vars, parse_vars, input_vars, call_vars, tool_vars>>

\* ChatService.list_threads: ThreadService.list_threads of the user
ChatListThreads ==
  \E user_id \in Users :
    /\ op = "chat"
    /\ chat_call' = [method |-> "list_threads", request |-> [user_id |-> user_id],
                     result |-> list_threads(user_threads, active_threads, user_id)]
    /\ UNCHANGED <<user_threads, active_threads, uuids, create_calls, implicit_threads,
                   deleted_threads>>
    /\ UNCHANGED <<stream_vars, parse_vars, input_vars, call_vars, tool_vars>>

\* ChatService.search_threads: list_threads of the user, whatever the query
ChatSearchThreads ==
  \E user_id \in Users, q \in SearchQueries :
    /\ op = "chat"
    /\ chat_call' = [method |-> "search_threads",
                     request |-> [user_id |-> user_id, query |-> q],
                     result |-> list_threads(user_threads, active_threads, user_id)]
    /\ UNCHANGED <<user_threads, active_threads, uuids, create_calls, implicit_threads,
                   deleted_threads>>
    /\ UNCHANGED <<stream_vars, parse_vars, input_vars, call_vars, tool_vars>>

\* chat_service.py line 179: limit: int = 100
DefaultLimit == 100

\* messages[-limit:]
LastMessages(messages, limit) ==
  IF Len(messages) <= limit THEN messages
  ELSE SubSeq(messages, Len(messages) - limit + 1, Len(messages))

\* ThreadService.get_messages: nothing for an unknown thread
get_messages(at, thread_id, limit) ==
  IF thread_id \notin DOMAIN at THEN << >>
  ELSE LastMessages(at[thread_id].messages, limit)

\* ChatService.get_messages: ThreadService.get_messages of the thread
ChatGetMessages ==
  \E thread_id \in DOMAIN active_threads \cup {0}, limit \in {1, DefaultLimit} :
    /\ op = "chat"
    /\ chat_call' = [method |-> "get_messages",
                     request |-> [thread_id |-> thread_id, limit |-> limit],
                     result |-> get_messages(active_threads, thread_id, limit)]
    /\ UNCHANGED <<user_threads, active_threads, uuids, create_calls, implicit_threads,
                   deleted_threads>>
    /\ UNCHANGED <<stream_vars, parse_vars, input_vars, call_vars, tool_vars>>

\* del d[k]
DictDel(d, k) == [x \in DOMAIN d \ {k} |-> d[x]]

\* a delete that leaves the user's mapping as it is
UnmapUserNever(ut, user_id, thread_id) == ut

\* thread_service.py lines 218-219: the mapping goes when it is this thread
UnmapUser(ut, user_id, thread_id) ==
  IF user_id \in DOMAIN ut /\ ut[user_id] = thread_id THEN DictDel(ut, user_id) ELSE ut

\* ChatService.delete_thread: ThreadService.delete_thread, False for an
\* unknown thread
ChatDeleteThread ==
  \E thread_id \in DOMAIN active_threads \cup {0} :
    /\ op = "chat"
    /\ IF thread_id \notin DOMAIN active_threads
       THEN /\ chat_call' = [method |-> "delete_thread",
                             request |-> [thread_id |-> thread_id], result |-> FALSE]
            /\ UNCHANGED <<user_threads, active_threads, deleted_threads>>
       ELSE LET user_id == active_threads[thread_id].user_id IN
            /\ active_threads' = DictDel(active_threads, thread_id)
            /\ user_threads' = UnmapUser(user_threads, user_id, thread_id)
            /\ deleted_threads' = [deleted_threads EXCEPT ![user_id] = @ + 1]
            /\ chat_call' = [method |-> "delete_thread",
                             request |-> [thread_id |-> thread_id], result |-> TRUE]
    /\ UNCHANGED <<uuids, create_calls, implicit_threads>>
    /\ UNCHANGED <<stream_vars, parse_vars, input_vars, call_vars, tool_vars>>

\* ChatService.update_thread_title: ThreadService.update_thread_title, False
\* for an unknown thread
ChatUpdateThreadTitle ==
  \E thread_id \in DOMAIN active_threads \cup {0}, title \in Titles :
    /\ op = "chat"
    /\ IF thread_id \notin DOMAIN active_threads
       THEN /\ chat_call' = [method |-> "update_thread_title",
                             request |-> [thread_id |-> thread_id, title |-> title],
                             result |-> FALSE]
            /\ UNCHANGED active_threads
       ELSE /\ active_threads' = [active_threads EXCEPT ![thread_id].title = title]
            /\ chat_call' = [method |-> "update_thread_title",
                             request |-> [thread_id |-> thread_id, title |-> title],
                             result |-> TRUE]
    /\ UNCHANGED <<user_threads, uuids, create_calls, implicit_threads, deleted_threads>>
    /\ UNCHANGED <<stream_vars, parse_vars, input_vars, call_vars, tool_vars>>

\* ThreadService.__init__ and no call made yet
ChatIdle ==
  /\ user_threads = << >> /\ active_threads = << >> /\ uuids = 0
  /\ create_calls = [u \in Users |-> << >>] /\ implicit_threads = [u \in Users |-> 0]
  /\ deleted_threads = [u \in Users |-> 0]
  /\ chat_call = [method |-> "none"]

\* ------------------------------------ sqlite_get_schema(table_count)
\* The tool of tools/sqlite_get_schema.py, which AgentService._load_tool
\* loads under the name sqlite_get_schema.  It reads the path from the
\* configuration and checks nothing before it connects; sqlite3.connect on a
\* path without a file makes an empty database.
ColumnInfo(name, data_type, is_primary_key, is_foreign_key, references) ==
  [name |-> name, data_type |-> data_type, is_primary_key |-> is_primary_key,
   is_foreign_key |-> is_foreign_key, references |-> references]
TableInfo(name, columns) == [name |-> name, columns |-> columns]
SchemaInfo(tables_arg, error) ==
  [database_path |-> "path", tables |-> tables_arg, error |-> error]

\* SELECT name FROM sqlite_master WHERE type='table' AND name NOT LIKE
\* 'sqlite_%', in the order of the catalog
all_tables(cat) == SelectSeq(cat, LAMBDA o : o.type = "table")

\* lines 40-42
tables_to_process(cat, count) ==
  IF count > 0 THEN Slice(all_tables(cat), 1, Min(count, Len(all_tables(cat))))
  ELSE all_tables(cat)

\* lines 57-84: fk_map of the table, and the ColumnInfo of one row of
\* table_info
ColumnInfoOf(obj, col) ==
  LET ks == { k \in 1..Len(obj.fks) : obj.fks[k].from = col.name }
      last == CHOOSE k \in ks : \A j \in ks : j <= k
  IN ColumnInfo(col.name, col.type, col.pk = 1, ks # { },
                IF ks # { }
                THEN Some(Dotted(obj.fks[last].table, Str(obj.fks[last].to)))
                ELSE None)

\* lines 28-33: the path and sqlite3.connect, which may raise
SchemaToolConnect ==
  /\ op = "schema_tool" /\ pc = "start"
  /\ \E ok \in BOOLEAN :
       IF ok
       THEN /\ conn' = "open"
            /\ opened' = opened + 1
            /\ pc' = "list"
            /\ UNCHANGED exc
       ELSE /\ exc' = "sqlite3.Error"
            /\ pc' = "outer_except"
            /\ UNCHANGED <<conn, opened>>
  /\ UNCHANGED <<returned, raised, response>>
  /\ UNCHANGED <<stream_vars, chat_vars, parse_vars, input_vars, exec_vars, tool_vars>>

\* lines 35-44: the query on sqlite_master, which may raise, the limit, and
\* the empty response
SchemaToolListTables ==
  /\ op = "schema_tool" /\ pc = "list"
  /\ \E ok \in BOOLEAN :
       IF ok
       THEN /\ all_objects' = tables_to_process(IF db_exists THEN catalog ELSE << >>,
                                                table_count)
            /\ tpos' = 1
            /\ pc' = "tables"
            /\ UNCHANGED exc
       ELSE /\ exc' = "sqlite3.Error"
            /\ pc' = "outer_except"
            /\ UNCHANGED <<all_objects, tpos>>
  /\ UNCHANGED <<conn, opened, returned, raised, response>>
  /\ UNCHANGED <<fk_map, tables, table_names, database_info, table_stats, total_rows, log>>
  /\ UNCHANGED <<stream_vars, chat_vars, parse_vars, input_vars, exec_vars>>

\* lines 47-87: one table: PRAGMA table_info and PRAGMA foreign_key_list,
\* each of which may raise, and the TableInfo
SchemaToolTable ==
  /\ op = "schema_tool" /\ pc = "tables" /\ tpos <= Len(all_objects)
  /\ LET obj == all_objects[tpos] IN
     \E outcome \in {"ok", "table_info", "foreign_key_list"} :
       IF outcome = "ok"
       THEN /\ tables' = Append(tables,
                           TableInfo(obj.name,
                                     [k \in 1..Len(obj.columns) |->
                                        ColumnInfoOf(obj, obj.columns[k])]))
            /\ tpos' = tpos + 1
            /\ UNCHANGED <<pc, exc>>
       ELSE /\ exc' = "sqlite3.Error"
            /\ pc' = "outer_except"
            /\ UNCHANGED <<tables, tpos>>
  /\ UNCHANGED <<conn, opened, returned, raised, response>>
  /\ UNCHANGED <<all_objects, fk_map, table_names, database_info, table_stats,
                 total_rows, log>>
  /\ UNCHANGED <<stream_vars, chat_vars, parse_vars, input_vars, exec_vars>>

\* lines 89-90: conn.close() and the return of the schema
SchemaToolReturn ==
  /\ op = "schema_tool" /\ pc = "tables" /\ tpos > Len(all_objects)
  /\ conn' = "closed"
  /\ response' = SchemaInfo(tables, None)
  /\ returned' = TRUE
  /\ pc' = "done"
  /\ UNCHANGED <<opened, exc, raised>>
  /\ UNCHANGED <<stream_vars, chat_vars, parse_vars, input_vars, exec_vars, tool_vars>>

\* lines 92-97: except Exception: the error response
SchemaToolExcept ==
  /\ op = "schema_tool" /\ pc = "outer_except"
  /\ response' = SchemaInfo(<< >>, Some(ErrSqlite))
  /\ returned' = TRUE
  /\ pc' = "done"
  /\ UNCHANGED <<conn, opened, exc, raised>>
  /\ UNCHANGED <<stream_vars, chat_vars, parse_vars, input_vars, exec_vars, tool_vars>>

\* ------------------------------------------ AgentService.stream_message
\* stream_message is a generator: the events list holds what it has yielded.
\* The agent is a LangGraph ReAct agent streamed with stream_mode="values":
\* every step is the state after one node, and its last message is the
\* human message first, then an AI message, then, if the AI message called a
\* tool, the tool's message and a further AI message, until an AI message
\* calls no tool.  The stream may raise at any step (a failed model call, the
\* recursion limit).
MaxSteps == 4

AgentIds == {"a1", "a2"}
ThreadId == "th"
MessageId == "m"

\* the message_text argument: empty, blank, and two with text
MessageTexts == { << >>, <<" ">>, <<NL, " ">>, <<"h", "i">>, <<" ", "h">> }

\* the content of an AI message: a str, or a list of content blocks
AIContents ==
  { [is_str |-> TRUE, text |-> << >>], [is_str |-> TRUE, text |-> <<"a">>],
    [is_str |-> TRUE, text |-> <<"a", "b">>],
    [is_str |-> TRUE, text |-> <<"c", "d", "e">>],
    [is_str |-> FALSE, text |-> <<"a">>] }

ToolCallLists == { << >>, << [name |-> "sqlite_execute_query"] >> }

HumanMessage(content) ==
  [kind |-> "human", content |-> [is_str |-> TRUE, text |-> content],
   tool_calls |-> << >>]
AIMessage(content, tool_calls) ==
  [kind |-> "ai", content |-> content, tool_calls |-> tool_calls]
ToolMessage(name) ==
  [kind |-> "tool", content |-> [is_str |-> TRUE, text |-> <<"{}">>],
   tool_calls |-> << >>]

\* the last messages the agent's stream can hand over next
NextMessages(sofar, text) ==
  IF sofar = << >> THEN { HumanMessage(text) }
  ELSE LET last == sofar[Len(sofar)] IN
       IF last.kind \in {"human", "tool"}
       THEN { AIMessage(c, t) : c \in AIContents, t \in ToolCallLists }
       ELSE IF last.tool_calls # << >>
       THEN { ToolMessage(last.tool_calls[1].name) }
       ELSE { }

\* lines 422-428: the agent of the call, None if there is none
ResolveAgent(registered, active, id) ==
  IF id # None /\ id[1] \in registered THEN id ELSE active

Event(type, data) == [type |-> type, data |-> data]

ErrorEvent(message) ==
  Event("error", [message |-> message, thread_id |-> ThreadId])
ChatMessageEvent(text) ==
  Event("chat_message",
        [message |-> [content |-> text, role |-> "user"], thread_id |-> ThreadId])
TypingIndicatorEvent(is_typing) ==
  Event("typing_indicator", [isTyping |-> is_typing])
TokenEvent(token) ==
  Event("token_stream",
        [token |-> token, message_id |-> MessageId, thread_id |-> ThreadId,
         is_complete |-> FALSE])
CompleteEvent(content) ==
  Event("token_stream",
        [token |-> << >>, message_id |-> MessageId, thread_id |-> ThreadId,
         is_complete |-> TRUE, full_content |-> content])
ToolCallsEvent(tool_calls) ==
  Event("tool_calls",
        [tool_calls |-> tool_calls, message_id |-> MessageId,
         thread_id |-> ThreadId])
MetricsEvent(calls) ==
  Event("metrics", [toolUsage |-> [totalCalls |-> calls]])

\* content[n:]
From(content, n) == Slice(content, n + 1, Len(content))

\* line 602
Fallback ==
  <<"I processed your request, but couldn't generate a proper response.">>

\* lines 401-448: the metrics object, the validation of the text, the choice
\* of the agent, and the first event; ValueError goes to the handler of line
\* 625, which yields the error event
StreamStart ==
  /\ op = "stream" /\ spc = "start"
  /\ IF message_text = << >> \/ Strip(message_text) = << >>
     THEN /\ events' = Append(events, ErrorEvent("empty"))
          /\ spc' = "empty_return"
     ELSE IF ResolveAgent(agents, active_agent, agent_id) = None
     THEN /\ events' = Append(events, ErrorEvent("No agent available"))
          /\ spc' = "error_yielded"
     ELSE /\ events' = Append(events, ChatMessageEvent(message_text))
          /\ spc' = "typing_on"
  /\ UNCHANGED <<agents, active_agent, message_text, agent_id, full_content,
                 total_calls, agent_messages>>
  /\ UNCHANGED <<chat_vars, parse_vars, input_vars, call_vars, tool_vars>>

\* line 416: the return after the error event of an empty text
StreamReturnEmpty ==
  /\ op = "stream" /\ spc = "empty_return"
  /\ spc' = "done"
  /\ UNCHANGED <<agents, active_agent, message_text, agent_id, events,
                 full_content, total_calls, agent_messages>>
  /\ UNCHANGED <<chat_vars, parse_vars, input_vars, call_vars, tool_vars>>

\* lines 450-475: the input of the agent, the typing event, the locals
StreamTypingOn ==
  /\ op = "stream" /\ spc = "typing_on"
  /\ events' = Append(events, TypingIndicatorEvent(TRUE))
  /\ full_content' = << >>
  /\ spc' = "loop"
  /\ UNCHANGED <<agents, active_agent, message_text, agent_id, total_calls,
                 agent_messages>>
  /\ UNCHANGED <<chat_vars, parse_vars, input_vars, call_vars, tool_vars>>

\* lines 502-506: is the content of this AI message taken as the text so far
TakesContent(message) ==
  message.kind = "ai" /\ message.content.is_str /\ message.content.text # << >>

\* lines 507-516: the token event of one message, if any
TokenEvents(message, content_so_far) ==
  IF TakesContent(message) /\ From(message.content.text, Len(content_so_far)) # << >>
  THEN << TokenEvent(From(message.content.text, Len(content_so_far))) >>
  ELSE << >>

\* lines 518-546: the tool_calls event of one message, if any
ToolCallsEvents(message) ==
  IF message.kind = "ai" /\ message.tool_calls # << >>
  THEN << ToolCallsEvent(message.tool_calls) >>
  ELSE << >>

\* lines 477-597: one round of the loop over the agent's stream
StreamAgentStep ==
  /\ op = "stream" /\ spc = "loop"
  /\ Len(agent_messages) < MaxSteps
  /\ \E message \in NextMessages(agent_messages, message_text) :
       /\ agent_messages' = Append(agent_messages, message)
       /\ events' = events \o TokenEvents(message, full_content)
                           \o ToolCallsEvents(message)
       /\ full_content' = IF TakesContent(message) THEN message.content.text
                          ELSE full_content
       /\ total_calls' = total_calls + Len(message.tool_calls)
  /\ UNCHANGED <<agents, active_agent, message_text, agent_id, spc>>
  /\ UNCHANGED <<chat_vars, parse_vars, input_vars, call_vars, tool_vars>>

\* lines 477 and 625-631: the agent's stream raises, and the handler yields
\* the error event
StreamAgentRaises ==
  /\ op = "stream" /\ spc = "loop"
  /\ events' = Append(events, ErrorEvent("agent"))
  /\ spc' = "error_yielded"
  /\ UNCHANGED <<agents, active_agent, message_text, agent_id, full_content,
                 total_calls, agent_messages>>
  /\ UNCHANGED <<chat_vars, parse_vars, input_vars, call_vars, tool_vars>>

\* lines 632-633 without the yield
NoTypingIndicatorAfterError(yielded) == yielded

\* lines 632-633: the typing event of the handler
TypingIndicatorAfterError(yielded) ==
  Append(yielded, TypingIndicatorEvent(FALSE))

StreamExceptTypingOff ==
  /\ op = "stream" /\ spc = "error_yielded"
  /\ events' = TypingIndicatorAfterError(events)
  /\ spc' = "done"
  /\ UNCHANGED <<agents, active_agent, message_text, agent_id, full_content,
                 total_calls, agent_messages>>
  /\ UNCHANGED <<chat_vars, parse_vars, input_vars, call_vars, tool_vars>>

\* lines 599-617: the agent's stream is over: the fallback text, the
\* performance figures, and the completion event
StreamComplete ==
  /\ op = "stream" /\ spc = "loop"
  /\ NextMessages(agent_messages, message_text) = { }
  /\ full_content' = IF full_content = << >> THEN Fallback ELSE full_content
  /\ events' = Append(events, CompleteEvent(full_content'))
  /\ spc' = "typing_off"
  /\ UNCHANGED <<agents, active_agent, message_text, agent_id, total_calls,
                 agent_messages>>
  /\ UNCHANGED <<chat_vars, parse_vars, input_vars, call_vars, tool_vars>>

\* lines 619-620
StreamTypingOff ==
  /\ op = "stream" /\ spc = "typing_off"
  /\ events' = Append(events, TypingIndicatorEvent(FALSE))
  /\ spc' = "metrics"
  /\ UNCHANGED <<agents, active_agent, message_text, agent_id, full_content,
                 total_calls, agent_messages>>
  /\ UNCHANGED <<chat_vars, parse_vars, input_vars, call_vars, tool_vars>>

\* lines 622-623: the metrics event, after which the generator ends
StreamMetrics ==
  /\ op = "stream" /\ spc = "metrics"
  /\ events' = Append(events, MetricsEvent(total_calls))
  /\ spc' = "done"
  /\ UNCHANGED <<agents, active_agent, message_text, agent_id, full_content,
                 total_calls, agent_messages>>
  /\ UNCHANGED <<chat_vars, parse_vars, input_vars, call_vars, tool_vars>>

\* AgentService.__init__ with no agent loaded, and no call of stream_message
StreamIdle ==
  /\ agents = { } /\ active_agent = None
  /\ message_text = << >> /\ agent_id = None /\ spc = "off"
  /\ events = << >> /\ full_content = << >> /\ total_calls = 0
  /\ agent_messages = << >>

\* ------------------------------------------------------------ the inputs
\* the statements a batch is made of: SELECT * FROM t, INSERT INTO t, an
\* INSERT that violates a constraint, DELETE FROM t, CREATE VIEW v AS SELECT,
\* BEGIN, and a statement that is no SQL
ExecMenu ==
  { <<"SELECT">>, <<"INSERT">>, <<"INSERT", " ", "BAD">>, <<"DELETE">>,
    <<"CREATE", " ", "SELECT">>, <<"BEGIN">>, <<"BAD">> }

RECURSIVE JoinStatements(_)
JoinStatements(sts) ==
  IF sts = << >> THEN << >>
  ELSE IF Len(sts) = 1 THEN sts[1]
  ELSE sts[1] \o <<";", " ">> \o JoinStatements(Tail(sts))

Batches == UNION { [1..n -> ExecMenu] : n \in 0..MaxStmts }

Tables == { [rows |-> [k \in 1..n |-> k], has_view |-> FALSE] : n \in 0..MaxTableRows }

ParseIdle ==
  /\ query_str = << >> /\ scan = ScanInit /\ parsed = << >> /\ ppc = "off"

ToolIdle ==
  /\ all_objects = << >> /\ tpos = 0 /\ fk_map = << >> /\ tables = << >>
  /\ table_names = << >> /\ database_info = << >> /\ table_stats = << >>
  /\ total_rows = 0 /\ log = << >>

CallIdle ==
  /\ ToolIdle
  /\ conn = "None" /\ opened = 0 /\ in_transaction = FALSE
  /\ pc = "start" /\ query_is_write = FALSE /\ queries = << >> /\ idx = 0
  /\ results = << >> /\ exc = "None"
  /\ returned = FALSE /\ raised = FALSE /\ response = NoResponse
  /\ engine_log = << >> /\ failed_at = 0 /\ rollback_raised = FALSE

InitQuery ==
  /\ op = "query"
  /\ db_exists \in BOOLEAN
  /\ \E b \in Batches : query = JoinStatements(b)
  /\ enable_write \in BOOLEAN
  /\ max_rows \in 0..MaxLimit
  /\ db \in Tables
  /\ db_before = db
  /\ conn_db = db
  /\ catalog = << >> /\ excluded_tables = {} /\ table_count = 0
  /\ CallIdle
  /\ ChatIdle
  /\ StreamIdle
  /\ ParseIdle

\* the catalogs: up to MaxObjects different objects, in any creation order
ObjMenu == {ObjT, ObjU, ObjV, ObjP, ObjW}

Catalogs ==
  { c \in UNION { [1..n -> ObjMenu] : n \in 0..MaxObjects } :
      \A i, j \in 1..Len(c) : i # j => c[i] # c[j] }

ExecIdle ==
  /\ query = << >> /\ enable_write = FALSE /\ max_rows = 0
  /\ db = [rows |-> << >>, has_view |-> FALSE] /\ db_before = db /\ conn_db = db

InitSchema ==
  /\ op = "schema"
  /\ db_exists \in BOOLEAN
  /\ catalog \in Catalogs
  /\ excluded_tables = {} /\ table_count = 0
  /\ ExecIdle
  /\ CallIdle
  /\ ChatIdle
  /\ StreamIdle
  /\ ParseIdle

InitMetadata ==
  /\ op = "metadata"
  /\ db_exists \in BOOLEAN
  /\ catalog \in Catalogs
  /\ excluded_tables \in {{}, {"t"}}
  /\ table_count \in 0..MaxTableCount
  /\ ExecIdle
  /\ CallIdle
  /\ ChatIdle
  /\ StreamIdle
  /\ ParseIdle

Init == InitQuery \/ InitSchema \/ InitMetadata

\* ---------------------------------------------------- the splitter, run alone
\* the characters the splitter tells apart, and "a" for any other character
Alphabet == {"a", " ", ";", SQ, DQ, "-", NL, "/", "*"}

Texts == UNION { [1..n -> Alphabet] : n \in 0..MaxLen }

\* /*/;*/ - one block comment for SQLite, whose closing star-slash is the last
\* two characters
SlashStarSlashText == <<"/", "*", "/", ";", "*", "/">>

\* SELECT ';' FROM t; SELECT 2;
QuotedSemicolonText ==
  <<"SELECT", " ", SQ, ";", SQ, " ", "FROM", " ", "t", ";", " ", "SELECT", " ", "2", ";">>

InputsIdle ==
  /\ op = "none" /\ db_exists = FALSE /\ catalog = << >> /\ excluded_tables = {} /\ table_count = 0
  /\ ExecIdle

InitParse ==
  /\ query_str \in Texts \cup {QuotedSemicolonText, SlashStarSlashText}
  /\ scan = ScanInit
  /\ parsed = << >>
  /\ ppc = "scan"
  /\ InputsIdle
  /\ CallIdle
  /\ ChatIdle
  /\ StreamIdle

\* lines 142-182: one iteration of the while loop
ParseStep ==
  /\ ppc = "scan" /\ scan.i <= Len(query_str)
  /\ scan' = ScanStep(query_str, scan)
  /\ UNCHANGED <<query_str, parsed, ppc>>
  /\ UNCHANGED <<stream_vars, chat_vars, input_vars, call_vars, tool_vars>>

\* lines 184-189: the last query and the return
ParseReturn ==
  /\ ppc = "scan" /\ scan.i > Len(query_str)
  /\ parsed' = ScanFinish(scan)
  /\ ppc' = "done"
  /\ UNCHANGED <<query_str, scan>>
  /\ UNCHANGED <<stream_vars, chat_vars, input_vars, call_vars, tool_vars>>

NextParse == ParseStep \/ ParseReturn

SpecParse == InitParse /\ [][NextParse]_vars

\* ------------------------------------------------ the classifier, run alone
\* the characters the classifier tells apart, a write keyword in both cases,
\* and "a" for any other word
ClassifyAlphabet == {"INSERT", "insert", "a", " ", "-", NL, "/", "*"}

ClassifyTexts == UNION { [1..n -> ClassifyAlphabet] : n \in 0..MaxLen }

\* /*--*/INSERT
DashesInBlockCommentText == <<"/", "*", "-", "-", "*", "/", "INSERT">>

InitClassify ==
  /\ op = "classify"
  /\ query \in ClassifyTexts \cup {DashesInBlockCommentText}
  /\ db_exists = FALSE /\ enable_write = FALSE /\ max_rows = 0
  /\ db = [rows |-> << >>, has_view |-> FALSE] /\ db_before = db /\ conn_db = db
  /\ catalog = << >> /\ excluded_tables = {} /\ table_count = 0
  /\ CallIdle
  /\ ChatIdle
  /\ StreamIdle
  /\ ParseIdle

\* lines 100-122: the call of is_write_operation on the text
Classify ==
  /\ op = "classify" /\ pc = "start"
  /\ query_is_write' = is_write_operation(query)
  /\ returned' = TRUE
  /\ pc' = "done"
  /\ UNCHANGED <<db, conn, opened, conn_db, in_transaction, queries, idx, results,
                 exc, raised, response, engine_log, failed_at, rollback_raised>>
  /\ UNCHANGED <<stream_vars, chat_vars, parse_vars, input_vars, tool_vars>>

NextClassify == Classify

SpecClassify == InitClassify /\ [][NextClassify]_vars

\* ------------------------------------------- the chat service, run alone
InitChat ==
  /\ op = "chat"
  /\ db_exists = FALSE /\ catalog = << >> /\ excluded_tables = {} /\ table_count = 0
  /\ ExecIdle
  /\ CallIdle
  /\ ChatIdle
  /\ StreamIdle
  /\ ParseIdle

NextChat ==
  \/ ChatCreateThread
  \/ ChatAddMessage
  \/ ChatListThreads
  \/ ChatSearchThreads
  \/ ChatDeleteThread
  \/ ChatUpdateThreadTitle
  \/ ChatGetMessages

SpecChat == InitChat /\ [][NextChat]_vars

\* ------------------------------------------- stream_message, run alone
\* the agents that _load_agents registered, and the active one if any
InitStream ==
  /\ op = "stream"
  /\ db_exists = FALSE /\ catalog = << >> /\ excluded_tables = {} /\ table_count = 0
  /\ ExecIdle
  /\ CallIdle
  /\ ChatIdle
  /\ ParseIdle
  /\ agents \in SUBSET AgentIds
  /\ active_agent \in {None} \cup { Some(a) : a \in agents }
  /\ message_text \in MessageTexts
  /\ agent_id \in {None} \cup { Some(a) : a \in AgentIds }
  /\ spc = "start"
  /\ events = << >> /\ full_content = << >> /\ total_calls = 0
  /\ agent_messages = << >>

NextStream ==
  \/ StreamStart
  \/ StreamReturnEmpty
  \/ StreamTypingOn
  \/ StreamAgentStep
  \/ StreamAgentRaises
  \/ StreamExceptTypingOff
  \/ StreamComplete
  \/ StreamTypingOff
  \/ StreamMetrics

SpecStream == InitStream /\ [][NextStream]_vars

\* the consumer takes every event: the generator runs until it ends
SpecStreamLive == SpecStream /\ WF_vars(NextStream)

\* ------------------------------- sqlite_get_schema(table_count), run alone
InitSchemaTool ==
  /\ op = "schema_tool"
  /\ db_exists \in BOOLEAN
  /\ catalog \in Catalogs
  /\ excluded_tables = {}
  /\ table_count \in 0..MaxTableCount
  /\ ExecIdle
  /\ CallIdle
  /\ ChatIdle
  /\ StreamIdle
  /\ ParseIdle

NextSchemaTool ==
  \/ SchemaToolConnect
  \/ SchemaToolListTables
  \/ SchemaToolTable
  \/ SchemaToolReturn
  \/ SchemaToolExcept

SpecSchemaTool == InitSchemaTool /\ [][NextSchemaTool]_vars

\* The engine's calls that may raise in Spec are connect, the pragma, and the
\* execution and fetching of a statement; commit, rollback and close complete.
Next ==
  \/ ExecStart
  \/ ExecConnect
  \/ ExecPragma
  \/ ExecStatement
  \/ ExecStatementError
  \/ ExecStatementUnexpected
  \/ ExecBatchEnd
  \/ ExecOuterExcept
  \/ ExecFinally
  \/ SchemaStart
  \/ SchemaConnect
  \/ SchemaListObjects
  \/ SchemaForeignKeys
  \/ SchemaSecondPass
  \/ SchemaBuildTable
  \/ SchemaReturn
  \/ SchemaOuterExcept
  \/ SchemaFinally
  \/ MetaStart
  \/ MetaConnect
  \/ MetaPragmas
  \/ MetaListTables
  \/ MetaTable
  \/ MetaReturn
  \/ MetaOuterExcept
  \/ MetaFinally

Spec == Init /\ [][Next]_vars

\* SpecFaults adds an engine whose rollback may raise as well.
NextFaults ==
  \/ Next
  \/ ExecStatementErrorRollbackRaises
  \/ ExecOuterExceptRollbackRaises

SpecFaults == Init /\ [][NextFaults]_vars

\* ------------------------------------------------------------- properties
Done == pc = "done"

\* the statements of the submitted text, as the splitter returns them
Submitted == parse_multiple_queries(query)

\* C1: with writes disabled, a text classified as a write returns at once:
\* zero results, is_write_operation = true, the error about writes being
\* disabled, no connection opened, no statement run, the database unchanged.
C1_BlockedWriteReturnsAtOnce ==
  (op = "query" /\ db_exists /\ ~enable_write /\ is_write_operation(query)
     /\ pc # "start")
  => /\ Done /\ returned /\ ~raised
     /\ response.results = << >>
     /\ response.is_write_operation = TRUE
     /\ response.error = ErrDisabled
     /\ conn = "None" /\ opened = 0
     /\ engine_log = << >>
     /\ db = db_before

C1_Witness ==
  /\ op = "query" /\ db_exists /\ ~enable_write /\ is_write_operation(query)
  /\ Done /\ response.error = ErrDisabled
  /\ Len(Submitted) = 2 /\ db.rows # << >>

\* C2: with writes disabled, a write statement at any position of the text
\* makes the call return the policy error, and no write statement reaches the
\* engine.
C2_NoWriteReachesEngine ==
  (op = "query" /\ db_exists /\ ~enable_write)
  => /\ \A k \in 1..Len(engine_log) : ~is_write_operation(engine_log[k])
     /\ (Done /\ \E k \in 1..Len(Submitted) : is_write_operation(Submitted[k]))
        => response.error = ErrDisabled

C4_WriteCommittedBeforeNext ==
  (op = "query" /\ enable_write
     /\ \A k \in 1..Len(queries) : Kind(queries[k]) # "BEGIN")
  => /\ (pc = "loop" /\ idx > 1) => db = conn_db
     /\ (Done /\ failed_at = 2 /\ Kind(queries[1]) = "INSERT"
           /\ Kind(queries[2]) = "INSERT")
        => Len(db.rows) = Len(db_before.rows) + 1

C6_NoConnectionLeftOpen ==
  /\ opened <= 1
  /\ Done => conn # "open"
  /\ (Done /\ (\/ ~db_exists
               \/ op = "query" /\ ~enable_write /\ is_write_operation(query)))
     => opened = 0 /\ conn = "None"

C6_Witness ==
  /\ op = "schema" /\ Done /\ exc = "Exception"
  /\ opened = 1 /\ conn = "closed"

\* C7: for a path that does not exist, each of the three operations returns
\* an error containing "not found" and an empty payload - no results; a
\* schema structure with zero databases and an empty list of tables; empty
\* database_info, empty table_stats and tableCount = 0 - without connecting.
C7_NotFoundEmptyPayload ==
  (~db_exists /\ Done)
  => /\ returned /\ ~raised /\ opened = 0
     /\ op = "query" =>
          /\ response.error = ErrNotFound
          /\ response.results = << >>
     /\ op = "schema" =>
          /\ "error" \in DOMAIN response.body
          /\ response.body.error = ErrNotFound
          /\ "database_schema" \in DOMAIN response.body
          /\ response.body.database_schema.databases = << >>
          /\ "tables" \in DOMAIN response.body
          /\ response.body.tables = << >>
     /\ op = "metadata" =>
          /\ response.error = ErrNotFound
          /\ response.database_info = EmptyDict
          /\ response.table_stats = << >>
          /\ response.stats.tableCount = 0

\* C8: execute_sqlite_query lets no engine failure escape: an engine error
\* raised while connecting, enabling foreign keys, executing, fetching or
\* rolling back ends in a response whose error contains "SQLite error" and
\* which carries the results accumulated so far.
C8_EngineFailureNeverEscapes ==
  (op = "query" /\ Done)
  => /\ ~raised /\ returned
     /\ (exc = "sqlite3.Error" \/ failed_at > 0 \/ rollback_raised)
        => /\ response.error.msg \in {"SQLite error", "SQLite error (query)"}
           /\ response.results = results

\* C9: for an input without a semicolon, parse_multiple_queries returns one
\* statement, the trimmed input.
C9_NoSemicolonOneStatement ==
  (ppc = "done" /\ ~HasWord(query_str, ";") /\ Strip(query_str) # << >>)
  => parsed = << Strip(query_str) >>

\* C10: a semicolon read inside a single-quoted literal or a double-quoted
\* identifier never ends a statement, and one read with both flags false
\* does; a quote character toggles its own flag only when the other flag is
\* not set; SELECT ';' FROM t; SELECT 2; gives two statements.
C10_SplitOnlyOutsideQuotes ==
  [][ /\ (ppc = "scan" /\ scan.i <= Len(query_str)) =>
           LET char == query_str[scan.i]
               sq == scan.in_single_quote
               dq == scan.in_double_quote
           IN /\ (scan'.queries # scan.queries) = (char = ";" /\ ~sq /\ ~dq)
              /\ (scan'.queries # scan.queries) =>
                    /\ Len(scan'.queries) = Len(scan.queries) + 1
                    /\ scan'.current_query = << >>
              /\ (scan'.in_single_quote # sq) = (char = SQ /\ ~dq)
              /\ (scan'.in_double_quote # dq) = (char = DQ /\ ~sq)
      /\ (ppc' = "done" /\ query_str = QuotedSemicolonText) =>
           parsed' = << <<"SELECT", " ", SQ, ";", SQ, " ", "FROM", " ", "t", ";">>,
                        <<"SELECT", " ", "2", ";">> >>
    ]_vars

C10_Witness ==
  /\ ppc = "scan" /\ scan.in_single_quote
  /\ HasWord(scan.current_query, ";")
  /\ scan.queries # << >>

\* The comments of a text as SQLite reads them: a line comment runs from --
\* to the end of the line, a block comment from /* to the first */ that
\* begins after the opening /*, and neither starts inside a quoted string.

\* position of the star of the first */ at or after p, 0 if there is none
RECURSIVE CommentClose(_, _)
CommentClose(s, p) ==
  IF p + 1 > Len(s) THEN 0
  ELSE IF s[p] = "*" /\ s[p + 1] = "/" THEN p ELSE CommentClose(s, p + 1)

\* what position k belongs to, reading from position p in mode m
RECURSIVE SqlMode(_, _, _, _)
SqlMode(s, p, m, k) ==
  IF m = "code" THEN
    IF s[p] = "-" /\ p + 1 <= Len(s) /\ s[p + 1] = "-" THEN
      LET e == LineEnd(s, p) IN
      IF k <= e THEN "line" ELSE SqlMode(s, e + 1, "code", k)
    ELSE IF s[p] = "/" /\ p + 1 <= Len(s) /\ s[p + 1] = "*" THEN
      LET c == CommentClose(s, p + 2) IN
      IF c = 0 THEN "open"
      ELSE IF k <= c + 1 THEN "block" ELSE SqlMode(s, c + 2, "code", k)
    ELSE IF p = k THEN "code"
    ELSE SqlMode(s, p + 1,
                 IF s[p] = SQ THEN "sq" ELSE IF s[p] = DQ THEN "dq" ELSE "code", k)
  ELSE IF p = k THEN m
  ELSE SqlMode(s, p + 1,
               IF (m = "sq" /\ s[p] = SQ) \/ (m = "dq" /\ s[p] = DQ) THEN "code" ELSE m,
               k)

\* position k lies in a line comment or in a closed block comment
InComment(s, k) == SqlMode(s, 1, "code", k) \in {"line", "block"}

\* C11: in parse_multiple_queries the characters of a line comment or of a
\* block comment that starts outside quotes never end a statement, never
\* change the quote flags, and are copied into the current statement one for
\* one.
C11_CommentsCopiedUnsplit ==
  [][ (ppc = "scan" /\ scan.i <= Len(query_str)) =>
        LET k == scan.i
            j == Min(scan'.i - 1, Len(query_str))
        IN (\A p \in k..j : InComment(query_str, p)) =>
             /\ scan'.queries = scan.queries
             /\ scan'.in_single_quote = scan.in_single_quote
             /\ scan'.in_double_quote = scan.in_double_quote
             /\ scan'.current_query = scan.current_query \o SubSeq(query_str, k, j)
    ]_vars

\* C12: for an input that holds nothing but whitespace and comments,
\* parse_multiple_queries returns the empty sequence.
C12_OnlyCommentsNoStatement ==
  (ppc = "done"
     /\ \A k \in 1..Len(query_str) :
          query_str[k] \in Whitespace \/ InComment(query_str, k))
  => parsed = << >>

\* the text without the characters of its comments
Uncommented(s) ==
  LET kept == SelectSeq([k \in 1..Len(s) |-> k], LAMBDA k : ~InComment(s, k))
  IN [i \in 1..Len(kept) |-> s[kept[i]]]

\* C13: is_write_operation(q) is true exactly when q without its line and
\* block comments, trimmed and in upper case, starts with a write keyword; a
\* keyword inside a comment does not count, and the keyword's case does not
\* matter.
C13_WriteIffKeywordFirst ==
  (op = "classify" /\ pc = "done")
  => LET u == Strip(Uncommented(query))
     IN query_is_write = (u # << >> /\ Upper(u[1]) \in write_operations)

\* C14: in every result of execute_sqlite_query, row_count is the number of
\* rows when the statement is a SELECT, and rows is empty and affected_rows
\* is not null when the statement is anything else (INSERT, UPDATE, DELETE,
\* DDL).
C14_ResultShape ==
  op = "query" =>
    \A i \in 1..Len(results) :
      IF Kind(queries[i]) = "SELECT"
      THEN results[i].row_count = Len(results[i].rows)
      ELSE results[i].rows = << >> /\ results[i].affected_rows # None

\* C15: in a schema that was extracted, a column of a table whose foreign key
\* list was read is marked as a foreign key exactly when the list has an entry
\* for it, its references are then the referenced table and the referenced
\* column of that entry, it has references exactly when it is marked, and no
\* column of a view is marked.
C15_ForeignKeysAsListed ==
  (op = "schema" /\ pc = "done" /\ "database_schema" \in DOMAIN response.body)
  => \A i \in 1..Len(response.body.database_schema.databases[1].tables) :
       LET t == response.body.database_schema.databases[1].tables[i]
           obj == ObjectNamed(catalog, t.name)
           listed(c) == { j \in 1..Len(obj.fks) : obj.fks[j].from = c.name }
           was_read == \A k \in 1..Len(log) : log[k] # <<"warning", "foreign keys", t.name>>
       IN \A k \in 1..Len(t.columns) :
            LET c == t.columns[k] IN
            /\ c.foreign_key = (c.references # None)
            /\ obj.type = "view" => ~c.foreign_key
            /\ (obj.type = "table" /\ was_read) =>
                 /\ c.foreign_key = (listed(c) # {})
                 /\ c.foreign_key =>
                      \E j \in listed(c) :
                        /\ c.references[1].table = obj.fks[j].table
                        /\ Some(c.references[1].column) = obj.fks[j].to

\* the sum of the row_count of the entries
RECURSIVE SumOfRowCounts(_)
SumOfRowCounts(entries) ==
  IF entries = << >> THEN 0
  ELSE entries[1].row_count + SumOfRowCounts(Tail(entries))

\* C16: when a metadata extraction succeeds, the statistics say one database,
\* as many tables as there are entries in table_stats, and as many rows as
\* the row_count of those entries add up to.
C16_StatsAgreeWithEntries ==
  (op = "metadata" /\ pc = "done" /\ response.error = NoError)
  => /\ response.stats.databaseCount = 1
     /\ response.stats.tableCount = Len(response.table_stats)
     /\ response.stats.rowCount = SumOfRowCounts(response.table_stats)

\* C17: a metadata extraction that succeeds returns one entry for each table
\* left after the excluded tables were removed and, when table_count > 0,
\* the list was cut to its first table_count names, in catalog order; with a
\* limit the informational message gives the number returned and the number
\* available; no excluded table has an entry.
C17_ExcludedThenLimited ==
  (op = "metadata" /\ pc = "done" /\ response.error = NoError)
  => LET available == FilterExcluded(SelectTableNames(catalog), excluded_tables)
         kept == IF table_count > 0
                 THEN SubSeq(available, 1, Min(table_count, Len(available)))
                 ELSE available
         entries == response.table_stats
     IN /\ [k \in 1..Len(entries) |-> entries[k].name] = kept
        /\ \A k \in 1..Len(entries) : entries[k].name \notin excluded_tables
        /\ table_count > 0 =>
             /\ "message" \in DOMAIN response.database_info
             /\ response.database_info.message = <<Len(kept), Len(available)>>

\* ------------------------------------------------- the chat service claims
\* C18: when a user's threads were all made by create_thread, with titles
\* that differ, none was deleted, and n such calls have returned,
\* list_threads of the user
\* reports total = n and returns n summaries.
C18_ListCountsCreates ==
  (op = "chat" /\ chat_call.method = "list_threads")
  => LET u == chat_call.request.user_id
         titles == create_calls[u]
         n == Len(titles)
     IN (/\ implicit_threads[u] = 0
         /\ deleted_threads[u] = 0
         /\ \A i \in 1..n : \A j \in 1..n : titles[i] = titles[j] => i = j)
        => /\ chat_call.result.total = n
           /\ Len(chat_call.result.threads) = n

\* q is a part of text: text[i:i+len(q)] = q for some i
Contains(text, q) ==
  \E i \in 1..(Len(text) - Len(q) + 1) : SubSeq(text, i, i + Len(q) - 1) = q

\* the stored threads of the user that match q in the title or in a message
Matching(user_id, q) ==
  { id \in DOMAIN active_threads :
      /\ active_threads[id].user_id = user_id
      /\ \/ Contains(active_threads[id].title, q)
         \/ \E k \in 1..Len(active_threads[id].messages) :
              Contains(active_threads[id].messages[k].content, q) }

\* C19: search_threads(user, q) returns the threads of the user whose title
\* contains q or that have a message whose content contains q, no other
\* thread, and total is their number.
C19_SearchReturnsMatches ==
  (op = "chat" /\ chat_call.method = "search_threads")
  => LET r == chat_call.result
         want == Matching(chat_call.request.user_id, chat_call.request.query)
     IN /\ { r.threads[k].id : k \in 1..Len(r.threads) } = want
        /\ Len(r.threads) = Cardinality(want)
        /\ r.total = Cardinality(want)

\* C20: the thread create_thread returns has an identifier and the user_id
\* and title of the request, and when the request has a system message the
\* messages of that thread right after the call are one message, with role
\* system and that content.
C20_CreateReturnsRequested ==
  (op = "chat" /\ chat_call.method = "create_thread")
  => LET r == chat_call.request
         t == chat_call.result
     IN /\ t.id >= 1
        /\ t.user_id = r.user_id
        /\ t.title = r.title
        /\ r.system_message # None =>
             LET messages == active_threads[t.id].messages
             IN /\ Len(messages) = 1
                /\ messages[1].role = "system"
                /\ messages[1].content = r.system_message[1]

\* ------------------------------------------------ transactions of a batch
\* C21: when a batch run with writes enabled returns without an error, no
\* transaction is open when the connection is closed and the database holds
\* every change the statements of the batch made.
C21_NothingLeftUncommitted ==
  (op = "query" /\ enable_write /\ pc = "finally" /\ returned
     /\ response.error = NoError)
  => /\ ~in_transaction
     /\ db = conn_db

DescribedNames(resp) ==
  LET tbls == resp.body.database_schema.databases[1].tables
  IN { tbls[k].name : k \in 1..Len(tbls) }

\* the names in the flat list of a schema response
ListedNames(resp) == { resp.body.tables[k] : k \in 1..Len(resp.body.tables) }

\* C23: when the columns of one table or view cannot be read, the object does
\* not appear in the result of get_sqlite_schema, every other table and view
\* is returned with its columns, and there is no top-level error; a foreign
\* key lookup that fails does not end the extraction either.
C23_FailedObjectSkipped ==
  (op = "schema" /\ pc = "done" /\ db_exists /\ exc = "None")
  => /\ DOMAIN response.body = {"database_schema", "tables"}
     /\ \A k \in 1..Len(catalog) :
          LET obj == catalog[k]
              failed == \E j \in 1..Len(log) : log[j] = <<"error", "columns", obj.name>>
          IN IF failed
             THEN /\ obj.name \notin DescribedNames(response)
                  /\ obj.name \notin ListedNames(response)
             ELSE \E i \in 1..Len(tables) :
                    /\ response.body.database_schema.databases[1].tables[i].name = obj.name
                    /\ [c \in 1..Len(obj.columns) |->
                          response.body.database_schema.databases[1].tables[i].columns[c].name]
                       = [c \in 1..Len(obj.columns) |-> obj.columns[c].name]

\* did the tool log this about the object
Logged(level, what, name) == \E j \in 1..Len(log) : log[j] = <<level, what, name>>

\* C24: a metadata extraction that reaches its end has no top-level error and
\* one entry for each table it analysed, in order; the entry of a table whose
\* analysis raised has all five numbers 0 and an error, the entry of every
\* other table has no error and the table's column count, and a COUNT(*)
\* that failed alone gives row_count 0 in an entry without error.
C24_FailedTableHasErrorEntry ==
  (op = "metadata" /\ pc = "done" /\ db_exists /\ exc = "None")
  => /\ response.error = NoError
     /\ Len(response.table_stats) = Len(table_names)
     /\ \A k \in 1..Len(table_names) :
          LET entry == response.table_stats[k]
              obj == ObjectNamed(catalog, table_names[k])
          IN /\ entry.name = table_names[k]
             /\ IF Logged("error", "analysis", entry.name)
                THEN /\ "error" \in DOMAIN entry
                     /\ entry.row_count = 0 /\ entry.column_count = 0
                     /\ entry.index_count = 0 /\ entry.avg_row_size_bytes = 0
                     /\ entry.estimated_size_bytes = 0
                ELSE /\ "error" \notin DOMAIN entry
                     /\ entry.column_count = Len(obj.columns)
                     /\ entry.row_count =
                          IF Logged("warning", "count", entry.name) THEN 0 ELSE obj.rows

C24_Witness ==
  /\ op = "metadata" /\ pc = "done" /\ response.error = NoError
  /\ Len(response.table_stats) = 2
  /\ "error" \in DOMAIN response.table_stats[1]
  /\ "error" \notin DOMAIN response.table_stats[2]
  /\ response.table_stats[2].column_count > 0

RECURSIVE Concatenated(_)
Concatenated(texts) ==
  IF texts = << >> THEN << >> ELSE texts[1] \o Concatenated(Tail(texts))

\* a text without its whitespace
WithoutWhitespace(text) == SelectSeq(text, LAMBDA c : c \notin Whitespace)

\* C26: the statements parse_multiple_queries returns, one after the other
\* and without whitespace, are the input without whitespace: no character is
\* dropped and none is added.
C26_NoCharacterLostOrAdded ==
  ppc = "done"
  => WithoutWhitespace(Concatenated(parsed)) = WithoutWhitespace(query_str)

\* --------------------------------------------------- the messages of a thread
\* C27: a message that add_message returns is stored: get_messages of its
\* thread, with the default limit, then gives the messages the thread had
\* before followed by the message; for a thread the thread service does not
\* know no message is returned as if it had been stored.
C27_ReturnedMessageIsStored ==
  [][ (op = "chat" /\ uuids' # uuids /\ chat_call'.method = "add_message")
      => LET message == chat_call'.result
             before == get_messages(active_threads, message.thread_id, DefaultLimit)
             after == get_messages(active_threads', message.thread_id, DefaultLimit)
         IN after = Append(before, message) ]_vars


\* the tokens of the token_stream events that are not the completion event
StreamedTokens(evs) ==
  LET chunks == SelectSeq(evs, LAMBDA ev : ev.type = "token_stream" /\ ~ev.data.is_complete)
  IN [k \in 1..Len(chunks) |-> chunks[k].data.token]

\* the completion events among the events
CompletionEvents(evs) ==
  SelectSeq(evs, LAMBDA ev : ev.type = "token_stream" /\ ev.data.is_complete)

\* some AI message of the run had text as its content
AgentProducedText ==
  \E k \in 1..Len(agent_messages) :
    /\ agent_messages[k].kind = "ai" /\ agent_messages[k].content.is_str
    /\ agent_messages[k].content.text # << >>

\* C28: once stream_message has yielded its completion event after an agent
\* that produced text, the tokens of the token_stream events before it, put
\* together in order, are the full_content of the completion event.
C28_TokensMakeFullContent ==
  (op = "stream" /\ CompletionEvents(events) # << >> /\ AgentProducedText)
  => Concatenated(StreamedTokens(events)) = CompletionEvents(events)[1].data.full_content

\* a typing event with isTyping true that no later typing event with isTyping
\* false follows
TypingPending(evs) ==
  \E i \in 1..Len(evs) :
    /\ evs[i].type = "typing_indicator" /\ evs[i].data.isTyping
    /\ \A j \in (i + 1)..Len(evs) :
         ~(evs[j].type = "typing_indicator" /\ ~evs[j].data.isTyping)

\* a text that is empty or has whitespace only
Blank(text) == \A k \in 1..Len(text) : text[k] \in Whitespace

\* chat_message of the user, typing on, token_stream and tool_calls events,
\* one completion event, typing off, metrics
SuccessfulOrder(evs, text) ==
  /\ Len(evs) >= 5
  /\ evs[1].type = "chat_message" /\ evs[1].data.message.role = "user"
  /\ evs[1].data.message.content = text
  /\ evs[2].type = "typing_indicator" /\ evs[2].data.isTyping
  /\ \A k \in 3..(Len(evs) - 3) :
       \/ evs[k].type = "tool_calls"
       \/ evs[k].type = "token_stream" /\ ~evs[k].data.is_complete
  /\ evs[Len(evs) - 2].type = "token_stream" /\ evs[Len(evs) - 2].data.is_complete
  /\ evs[Len(evs) - 1].type = "typing_indicator" /\ ~evs[Len(evs) - 1].data.isTyping
  /\ evs[Len(evs)].type = "metrics"

\* C29: in a run of stream_message that the consumer takes to its end, a
\* typing event with isTyping true is always followed later by one with
\* isTyping false, also when the agent raises; a run that ends without an
\* error event has yielded chat_message, typing on, token_stream and tool_calls
\* events, one completion event, typing off and metrics, in this order; and
\* for an empty or blank text the events are one error event and no other.
C29_TypingEndsAndEventOrder ==
  /\ TypingPending(events) ~> ~TypingPending(events)
  /\ []((op = "stream" /\ spc = "done"
         /\ \A k \in 1..Len(events) : events[k].type # "error")
        => SuccessfulOrder(events, message_text))
  /\ []((op = "stream" /\ spc # "start" /\ Blank(message_text))
        => Len(events) = 1 /\ events[1].type = "error")

\* the agent raised after a token event, and the generator has ended with the
\* error event and the typing event with isTyping false
C29_Witness ==
  /\ op = "stream" /\ spc = "done" /\ Len(events) >= 5
  /\ events[2].type = "typing_indicator" /\ events[2].data.isTyping
  /\ events[3].type = "token_stream"
  /\ events[Len(events) - 1].type = "error"
  /\ events[Len(events)].type = "typing_indicator" /\ ~events[Len(events)].data.isTyping

\* C30: when sqlite_get_schema(table_count) has returned, the connection it
\* opened is closed, also when a table_info or foreign_key_list query raised
\* and the error response was returned.
C30_SchemaToolClosesConnection ==
  (op = "schema_tool" /\ pc = "done") => conn # "open"

============================================================================
